---- MODULE Spec2Model ----
(***************************************************************************)
(* A model of the storage-engine core of bustub: the disk extendible hash  *)
(* table, the LRU-K replacer, the buffer pool manager with its page        *)
(* guards, and the MVCC transaction manager with its executors.            *)
(* Each component has its own specification over the shared variables.     *)
(***************************************************************************)
EXTENDS Integers, Sequences, FiniteSets, TLC

VARIABLES
  \* ---- DiskExtendibleHashTable ----
  header_max_depth,     \* ExtendibleHTableHeaderPage::max_depth_
  directory_max_depth,  \* DiskExtendibleHashTable::directory_max_depth_
  bucket_max_size,      \* DiskExtendibleHashTable::bucket_max_size_
  hash_fn,              \* DiskExtendibleHashTable::hash_fn_ (key -> <<hi, lo>>)
  ht,                   \* the header, directory and bucket pages of the index
  ht_last,              \* the last index call and what it returned
  ht_stored,            \* history: key -> <<value>> of the last successful Insert that no Remove followed
  \* ---- LRUKReplacer ----
  replacer_k,           \* LRUKReplacer::k_
  node_store,           \* LRUKReplacer::node_store_: frame id -> LRUKNode
  current_timestamp,    \* the clock read by LRUKReplacer::GetCurrentTimestamp
  \* ---- BufferPoolManager ----
  pool_size,            \* BufferPoolManager::pool_size_
  pages,                \* BufferPoolManager::pages_: frame id -> Page
  page_table,           \* BufferPoolManager::page_table_: page id -> frame id
  free_list,            \* BufferPoolManager::free_list_
  next_page_id,         \* BufferPoolManager::next_page_id_
  disk,                 \* the pages as the disk manager holds them: page id -> data
  bpm_last,             \* the last replacer or pool call and what it returned
  \* ---- page guards ----
  guards,               \* the guard objects of the callers
  latch,                \* Page::rwlatch_ of every frame
  crashed,              \* the process has dereferenced a null pointer
  \* ---- TransactionManager, table heap and executors ----
  next_txn_id,          \* TransactionManager::next_txn_id_
  last_commit_ts,       \* TransactionManager::last_commit_ts_
  txn_map,              \* TransactionManager::txn_map_: txn id -> Transaction
  running_txns,         \* TransactionManager::running_txns_ (the Watermark)
  table_heap,           \* the tuples of the table: rid -> (TupleMeta, Tuple)
  version_info,         \* TransactionManager::version_info_: rid -> UndoLink
  executors,            \* txn id -> the Update or Delete executor running for it
  commit_mutex,         \* TransactionManager::commit_mutex_: the txn id holding it
  mvcc_last,            \* the last transaction or executor step and its outcome
  terminated,           \* std::terminate has been called
  \* ---- TableHeap and TableIterator ----
  heap_pages,           \* the table pages of the heap: page id -> TablePage header
  last_page_id,         \* TableHeap::last_page_id_
  heap_latch,           \* TableHeap::latch_: "free", or "held" by an InsertTuple that took a new page
  iterators,            \* the TableIterator objects of the scanning threads
  \* ---- threads inside TransactionManager and the hash index ----
  tm_threads,           \* thread -> the TransactionManager call it is in and its position
  txn_map_mutex,        \* TransactionManager::txn_map_mutex_ (std::shared_mutex)
  watermark_access,     \* the threads inside a method of running_txns_
  ht_threads            \* thread -> the index call it is in, its position and what it read

ht_vars == <<header_max_depth, directory_max_depth, bucket_max_size, hash_fn, ht, ht_last, ht_stored>>

replacer_vars == <<replacer_k, node_store, current_timestamp>>

bpm_vars == <<pool_size, pages, page_table, free_list, next_page_id, disk, bpm_last>>

guard_vars == <<guards, latch, crashed>>

mvcc_vars == <<next_txn_id, last_commit_ts, txn_map, running_txns, table_heap, version_info,
               executors, commit_mutex, mvcc_last, terminated>>

heap_vars == <<heap_pages, last_page_id, heap_latch, iterators>>

thread_vars == <<tm_threads, txn_map_mutex, watermark_access, ht_threads>>

vars == <<ht_vars, replacer_vars, bpm_vars, guard_vars, mvcc_vars, heap_vars, thread_vars>>

\* What the actions of one component leave alone.
non_ht_vars == <<replacer_vars, bpm_vars, guard_vars, mvcc_vars, heap_vars, thread_vars>>

non_pool_vars == <<ht_vars, mvcc_vars, heap_vars, thread_vars>>

non_mvcc_vars == <<ht_vars, replacer_vars, bpm_vars, guard_vars, heap_vars, thread_vars>>

\* ---------------------------------------------------------------------------
\* Bounds of the model
\* ---------------------------------------------------------------------------
MaxKey == 2
MaxHeaderDepth == 1
MaxDirectoryDepth == 2
MaxBucketSize == 2
MaxPages == 5
MaxFrames == 2
MaxK == 3
MaxTimestamp == 3
MaxPoolSize == 1
MaxPageId == 1
MaxPin == 1
MaxGuards == 3

\* ---------------------------------------------------------------------------
\* Program constants
\* ---------------------------------------------------------------------------
INVALID_PAGE_ID == -1

\* uint32_t and int are WordBits wide.
WordBits == 32

\* ---------------------------------------------------------------------------
\* A component that a specification does not exercise is not constructed.
\* ---------------------------------------------------------------------------
HTIdle ==
  /\ header_max_depth = 0
  /\ directory_max_depth = 0
  /\ bucket_max_size = 0
  /\ hash_fn = <<>>
  /\ ht = <<>>
  /\ ht_last = <<>>
  /\ ht_stored = <<>>

MVCCIdle ==
  /\ next_txn_id = 0
  /\ last_commit_ts = 0
  /\ txn_map = <<>>
  /\ running_txns = <<>>
  /\ table_heap = <<>>
  /\ version_info = <<>>
  /\ executors = <<>>
  /\ commit_mutex = 0
  /\ mvcc_last = <<>>
  /\ terminated = FALSE

TableIdle ==
  /\ heap_pages = <<>>
  /\ last_page_id = 0
  /\ heap_latch = "free"
  /\ iterators = <<>>

\* No thread is inside the transaction manager or the index.
ThreadsIdle ==
  /\ tm_threads = <<>>
  /\ txn_map_mutex = [exclusive |-> 0, shared |-> {}]
  /\ watermark_access = {}
  /\ ht_threads = <<>>

GuardIdle ==
  /\ guards = <<>>
  /\ latch = <<>>
  /\ crashed = FALSE

PoolIdle ==
  /\ replacer_k = 0
  /\ node_store = <<>>
  /\ current_timestamp = 0
  /\ pool_size = 0
  /\ pages = <<>>
  /\ page_table = <<>>
  /\ free_list = <<>>
  /\ next_page_id = 0
  /\ disk = <<>>
  /\ bpm_last = <<>>
  /\ GuardIdle

Keys == 0..MaxKey
\* The value the callers store under a key.
ValueOf(key) == 10 + key

Pow2(n) == 2 ^ n

RECURSIVE BitAnd(_, _)
BitAnd(a, b) ==
  IF a = 0 \/ b = 0 THEN 0
  ELSE (a % 2) * (b % 2) + 2 * BitAnd(a \div 2, b \div 2)

\* A 32-bit hash is kept as <<hi, lo>>, its upper and lower 16 bits.
HalfWord == WordBits \div 2

\* A 32-bit mask is kept as its low MaskBits bits; masks are only ever
\* and-ed with directory indices and with the low half of a hash.
MaskBits == WordBits - 2
LowMask(x) == x % Pow2(MaskBits)

\* 1 << n on a 32-bit int, as the set of results a build can give, low
\* MaskBits bits: a count outside 0..31 is undefined and yields either the
\* shift by n modulo 32 or 0.
ShiftLeftOutcomes(n) ==
  LET wrapped == IF n % WordBits < MaskBits THEN Pow2(n % WordBits) ELSE 0
  IN IF n \in 0..(WordBits - 1) THEN {wrapped} ELSE {wrapped, 0}

ShiftLeftDetermined(n) == Cardinality(ShiftLeftOutcomes(n)) = 1

ShiftLeft(n) == CHOOSE x \in ShiftLeftOutcomes(n) : TRUE

\* The hash functions the index is constructed with.
IdentityHash == [k \in Keys |-> <<0, k>>]
TopBitHash == [k \in Keys |-> <<(k % 2) * Pow2(HalfWord - 1), k \div 2>>]
CollidingHash == [k \in Keys |-> <<0, 2 * (k \div 2)>>]
HashFns == {IdentityHash, TopBitHash, CollidingHash}

Hash(key) == hash_fn[key]

\* ---------------------------------------------------------------------------
\* ExtendibleHTableHeaderPage
\* ---------------------------------------------------------------------------
HeaderMaxSize == Pow2(header_max_depth)

HashToDirectoryIndex(hash) ==
  IF HeaderMaxSize = 1 THEN 0
  ELSE BitAnd(hash[1] \div Pow2(HalfWord - header_max_depth), Pow2(header_max_depth) - 1)

\* ---------------------------------------------------------------------------
\* ExtendibleHTableDirectoryPage
\* ---------------------------------------------------------------------------
DirInit(max_depth) ==
  [max_depth |-> max_depth,
   global_depth |-> 0,
   local_depths |-> [i \in 0..(Pow2(max_depth) - 1) |-> 0],
   bucket_page_ids |-> [i \in 0..(Pow2(max_depth) - 1) |-> INVALID_PAGE_ID]]

DirSize(d) == Pow2(d.global_depth)

DirMaxSize(d) == Pow2(d.max_depth)

HashToBucketIndex(d, hash) == hash[2] % DirSize(d)

\* A faulty variant: the split image differs in the lowest bit, not the highest.
GetSplitImageIndexLowBit(d, bucket_idx) ==
  IF DirSize(d) = 1 THEN bucket_idx
  ELSE IF bucket_idx % 2 = 0 THEN bucket_idx + 1 ELSE bucket_idx - 1

GetSplitImageIndex(d, bucket_idx) ==
  IF DirSize(d) = 1 THEN bucket_idx
  ELSE LET half_size == Pow2(d.global_depth - 1)
       IN IF bucket_idx < half_size THEN bucket_idx + half_size ELSE bucket_idx - half_size

GetLocalDepthMask(d, bucket_idx) == LowMask(ShiftLeft(d.local_depths[bucket_idx]) - 1)

IncrGlobalDepth(d) ==
  IF d.global_depth >= d.max_depth THEN d
  ELSE LET original_size == DirSize(d)
       IN [d EXCEPT !.local_depths =
                      [i \in DOMAIN d.local_depths |->
                         IF i >= original_size /\ i < 2 * original_size
                         THEN d.local_depths[i - original_size] ELSE d.local_depths[i]],
                    !.bucket_page_ids =
                      [i \in DOMAIN d.bucket_page_ids |->
                         IF i >= original_size /\ i < 2 * original_size
                         THEN d.bucket_page_ids[i - original_size] ELSE d.bucket_page_ids[i]],
                    !.global_depth = d.global_depth + 1]

DecrGlobalDepth(d) ==
  IF d.global_depth = 0 THEN d
  ELSE LET half_size == DirSize(d) \div 2
       IN [d EXCEPT !.bucket_page_ids =
                      [i \in DOMAIN d.bucket_page_ids |->
                         IF i >= half_size /\ i < 2 * half_size
                         THEN INVALID_PAGE_ID ELSE d.bucket_page_ids[i]],
                    !.local_depths =
                      [i \in DOMAIN d.local_depths |->
                         IF i >= half_size /\ i < 2 * half_size THEN 0 ELSE d.local_depths[i]],
                    !.global_depth = d.global_depth - 1]

CanShrink(d) == \A i \in 0..(DirSize(d) - 1) : d.local_depths[i] < d.global_depth

\* ---------------------------------------------------------------------------
\* ExtendibleHTableBucketPage: a bucket is the sequence array_[0..size_)
\* ---------------------------------------------------------------------------
BucketHasKey(b, key) == \E i \in 1..Len(b) : b[i][1] = key

\* Lookup: the result vector, <<value>> when it returns true and <<>> when not.
BucketLookup(b, key) ==
  IF BucketHasKey(b, key)
  THEN <<b[CHOOSE i \in 1..Len(b) : b[i][1] = key /\ \A j \in 1..(i - 1) : b[j][1] # key][2]>>
  ELSE <<>>

BucketIsFull(b) == Len(b) = bucket_max_size

BucketInsertOk(b, key) == ~BucketHasKey(b, key) /\ Len(b) # bucket_max_size

BucketInsert(b, key, value) ==
  IF BucketInsertOk(b, key) THEN Append(b, <<key, value>>) ELSE b

BucketRemoveAt(b, i) == SubSeq(b, 1, i - 1) \o SubSeq(b, i + 1, Len(b))

BucketRemove(b, key) ==
  IF BucketHasKey(b, key)
  THEN BucketRemoveAt(b, CHOOSE i \in 1..Len(b) : b[i][1] = key /\ \A j \in 1..(i - 1) : b[j][1] # key)
  ELSE b

\* ---------------------------------------------------------------------------
\* DiskExtendibleHashTable.  The index state s is the record
\*   [hdr: directory_page_ids_ of the header page,
\*    dirs: page id -> directory page, bkts: page id -> bucket page,
\*    next_page_id: BufferPoolManager::next_page_id_, deleted: pages the pool deleted]
\* ---------------------------------------------------------------------------
HTInit(hmd) ==
  [hdr |-> [i \in 0..(Pow2(hmd) - 1) |-> INVALID_PAGE_ID],
   dirs |-> <<>>,
   bkts |-> <<>>,
   next_page_id |-> 1,
   deleted |-> {}]

\* BufferPoolManager::DeletePage as the index sees it: a page that is still
\* pinned (pin_count > 0) is not deleted.
HTDeletePage(s, page_id, pin_count) ==
  IF pin_count > 0 THEN s ELSE [s EXCEPT !.deleted = @ \cup {page_id}]

UpdateDirectoryPageIdMapping(d, bucket_idx, new_bucket_page_id, local_depth_mask) ==
  LET lower_bits == BitAnd(bucket_idx, local_depth_mask)
  IN [d EXCEPT !.bucket_page_ids =
        [idx \in DOMAIN d.bucket_page_ids |->
           IF idx < DirSize(d) /\ BitAnd(idx, local_depth_mask) = lower_bits
           THEN new_bucket_page_id ELSE d.bucket_page_ids[idx]]]

UpdateDirectoryLocalDepthMapping(d, bucket_idx, new_local_depth, local_depth_mask) ==
  LET lower_bits == BitAnd(bucket_idx, local_depth_mask)
  IN [d EXCEPT !.local_depths =
        [idx \in DOMAIN d.local_depths |->
           IF idx < DirSize(d) /\ BitAnd(idx, local_depth_mask) = lower_bits
           THEN new_local_depth ELSE d.local_depths[idx]]]

\* The loop of MigrateEntries, from entry i (1-based) down to the first one;
\* the result is <<old_bucket, new_bucket>>.
RECURSIVE MigrateLoop(_, _, _, _, _)
MigrateLoop(old_bucket, new_bucket, i, lower_bits, local_depth_mask) ==
  IF i = 0 THEN <<old_bucket, new_bucket>>
  ELSE IF BitAnd(Hash(old_bucket[i][1])[2], local_depth_mask) = lower_bits
       THEN MigrateLoop(BucketRemoveAt(old_bucket, i),
                        BucketInsert(new_bucket, old_bucket[i][1], old_bucket[i][2]),
                        i - 1, lower_bits, local_depth_mask)
       ELSE MigrateLoop(old_bucket, new_bucket, i - 1, lower_bits, local_depth_mask)

MigrateEntries(old_bucket, new_bucket, new_bucket_idx, local_depth_mask) ==
  MigrateLoop(old_bucket, new_bucket, Len(old_bucket),
              BitAnd(new_bucket_idx, local_depth_mask), local_depth_mask)

\* One pass of the body of the split loop of InsertToNewBucket, on the bucket
\* page bucket_page_id that the loop holds and the index bucket_idx it computed.
SplitStep(s, directory_page_id, bucket_page_id, bucket_idx) ==
  LET d0 == s.dirs[directory_page_id]
      d1 == IF d0.local_depths[bucket_idx] = d0.global_depth THEN IncrGlobalDepth(d0) ELSE d0
      local_depth == (d0.local_depths[bucket_idx] + 1) % 256
      old_depth_mask == GetLocalDepthMask(d1, bucket_idx)
      d2 == UpdateDirectoryLocalDepthMapping(d1, bucket_idx, local_depth, old_depth_mask)
      new_bucket_page_id == s.next_page_id
      new_bucket_idx == GetSplitImageIndex(d2, bucket_idx)
      new_depth_mask == LowMask(old_depth_mask + ShiftLeft(local_depth - 1))
      d3 == UpdateDirectoryPageIdMapping(d2, new_bucket_idx, new_bucket_page_id, new_depth_mask)
      moved == MigrateEntries(s.bkts[bucket_page_id], <<>>, new_bucket_idx, new_depth_mask)
  IN [s EXCEPT !.dirs = [@ EXCEPT ![directory_page_id] = d3],
               !.bkts = (new_bucket_page_id :> moved[2]) @@ [@ EXCEPT ![bucket_page_id] = moved[1]],
               !.next_page_id = @ + 1]

\* while (bucket->IsFull()) { ... }: the result is [s, full, is_split], where
\* full says that the loop returned false for lack of directory space.
RECURSIVE SplitLoop(_, _, _, _, _)
SplitLoop(s, directory_page_id, bucket_page_id, bucket_idx, is_split) ==
  IF ~BucketIsFull(s.bkts[bucket_page_id])
  THEN [s |-> s, full |-> FALSE, is_split |-> is_split]
  ELSE LET d == s.dirs[directory_page_id]
       IN IF d.local_depths[bucket_idx] = d.global_depth /\ DirSize(d) = DirMaxSize(d)
          THEN [s |-> s, full |-> TRUE, is_split |-> is_split]
          ELSE SplitLoop(SplitStep(s, directory_page_id, bucket_page_id, bucket_idx),
                         directory_page_id, bucket_page_id, bucket_idx, TRUE)

\* InsertToNewBucket: the result is [s, ret].
RECURSIVE InsertToNewBucket(_, _, _, _, _)
InsertToNewBucket(s, directory_page_id, hash, key, value) ==
  LET d == s.dirs[directory_page_id]
      bucket_idx == HashToBucketIndex(d, hash)
      fresh == d.bucket_page_ids[bucket_idx] = INVALID_PAGE_ID
      bucket_page_id == IF fresh THEN s.next_page_id ELSE d.bucket_page_ids[bucket_idx]
      s1 == IF fresh
            THEN [s EXCEPT !.bkts = (bucket_page_id :> <<>>) @@ @,
                           !.dirs = [@ EXCEPT ![directory_page_id] =
                                       [d EXCEPT !.bucket_page_ids[bucket_idx] = bucket_page_id,
                                                 !.local_depths[bucket_idx] = 0]],
                           !.next_page_id = @ + 1]
            ELSE s
      r == SplitLoop(s1, directory_page_id, bucket_page_id, bucket_idx, FALSE)
  IN IF r.full THEN [s |-> r.s, ret |-> FALSE]
     ELSE IF r.is_split THEN InsertToNewBucket(r.s, directory_page_id, hash, key, value)
     ELSE [s |-> [r.s EXCEPT !.bkts[bucket_page_id] = BucketInsert(@, key, value)],
           ret |-> BucketInsertOk(r.s.bkts[bucket_page_id], key)]

InsertToNewDirectory(s, hash, key, value) ==
  LET directory_idx == HashToDirectoryIndex(hash)
      fresh == s.hdr[directory_idx] = INVALID_PAGE_ID
      directory_page_id == IF fresh THEN s.next_page_id ELSE s.hdr[directory_idx]
      s1 == IF fresh
            THEN [s EXCEPT !.dirs = (directory_page_id :> DirInit(directory_max_depth)) @@ @,
                           !.hdr[directory_idx] = directory_page_id,
                           !.next_page_id = @ + 1]
            ELSE s
  IN InsertToNewBucket(s1, directory_page_id, hash, key, value)

HTInsertResult(s, key, value) == InsertToNewDirectory(s, Hash(key), key, value)

\* GetValue: the result vector, <<value>> when it returns true and <<>> when not.
HTGetValueResult(s, key) ==
  LET key_hash == Hash(key)
      directory_page_id == s.hdr[HashToDirectoryIndex(key_hash)]
  IN IF directory_page_id = INVALID_PAGE_ID THEN <<>>
     ELSE LET d == s.dirs[directory_page_id]
              bucket_page_id == d.bucket_page_ids[HashToBucketIndex(d, key_hash)]
          IN IF bucket_page_id = INVALID_PAGE_ID THEN <<>>
             ELSE BucketLookup(s.bkts[bucket_page_id], key)

\* The merge branch of Remove, entered when the bucket became empty.
RemoveMerge(s, directory_idx, directory_page_id, bucket_idx, bucket_page_id) ==
  LET s1 == HTDeletePage(s, bucket_page_id, 1)
      d == s1.dirs[directory_page_id]
      merged_bucket_idx == GetSplitImageIndex(d, bucket_idx)
  IN IF merged_bucket_idx = bucket_idx
     THEN HTDeletePage([s1 EXCEPT !.hdr[directory_idx] = INVALID_PAGE_ID], directory_page_id, 1)
     ELSE LET merged_bucket_page_id == d.bucket_page_ids[merged_bucket_idx]
              merged_bucket_local_depth == (d.local_depths[bucket_idx] - 1) % 256
              new_local_depth_mask == GetLocalDepthMask(d, bucket_idx) \div 2
              d1 == UpdateDirectoryPageIdMapping(d, merged_bucket_idx, merged_bucket_page_id,
                                                 new_local_depth_mask)
              d2 == UpdateDirectoryLocalDepthMapping(d1, merged_bucket_idx,
                                                     merged_bucket_local_depth, new_local_depth_mask)
              d3 == IF CanShrink(d2) THEN DecrGlobalDepth(d2) ELSE d2
          IN [s1 EXCEPT !.dirs[directory_page_id] = d3]

\* Remove: the result is [s, ret].
HTRemoveResult(s, key) ==
  LET key_hash == Hash(key)
      directory_idx == HashToDirectoryIndex(key_hash)
      directory_page_id == s.hdr[directory_idx]
  IN IF directory_page_id = INVALID_PAGE_ID THEN [s |-> s, ret |-> FALSE]
     ELSE LET d == s.dirs[directory_page_id]
              bucket_idx == HashToBucketIndex(d, key_hash)
              bucket_page_id == d.bucket_page_ids[bucket_idx]
          IN IF bucket_page_id = INVALID_PAGE_ID THEN [s |-> s, ret |-> FALSE]
             ELSE LET is_removed == BucketHasKey(s.bkts[bucket_page_id], key)
                      s1 == [s EXCEPT !.bkts[bucket_page_id] = BucketRemove(@, key)]
                  IN IF is_removed /\ Len(s1.bkts[bucket_page_id]) = 0
                     THEN [s |-> RemoveMerge(s1, directory_idx, directory_page_id,
                                             bucket_idx, bucket_page_id),
                           ret |-> TRUE]
                     ELSE [s |-> s1, ret |-> TRUE]

\* The index is followed as long as every shift by a local depth has one
\* result in every build.
HTShiftDefined(s) ==
  \A p \in DOMAIN s.dirs : \A i \in DOMAIN s.dirs[p].local_depths :
    ShiftLeftDetermined(s.dirs[p].local_depths[i])

\* ---------------------------------------------------------------------------
\* Actions of the hash index
\* ---------------------------------------------------------------------------
HTStart ==
  /\ header_max_depth \in 0..MaxHeaderDepth
  /\ directory_max_depth \in 1..MaxDirectoryDepth
  /\ bucket_max_size \in 1..MaxBucketSize
  /\ hash_fn \in HashFns
  /\ ht = HTInit(header_max_depth)
  /\ ht_last = [op |-> "none", key |-> 0, result |-> <<>>, ret |-> FALSE]
  /\ ht_stored = [k \in Keys |-> <<>>]
  /\ PoolIdle
  /\ MVCCIdle
  /\ TableIdle
  /\ ThreadsIdle

\* The pool hands out page ids up to MaxPages.
HTPagesLeft(s) == s.next_page_id <= MaxPages + 1

Insert(key, value) ==
  /\ HTShiftDefined(ht)
  /\ LET r == HTInsertResult(ht, key, value)
     IN /\ HTPagesLeft(r.s)
        /\ ht' = r.s
        /\ ht_last' = [op |-> "Insert", key |-> key, result |-> <<>>, ret |-> r.ret]
        /\ ht_stored' = IF r.ret THEN [ht_stored EXCEPT ![key] = <<value>>] ELSE ht_stored
  /\ UNCHANGED <<header_max_depth, directory_max_depth, bucket_max_size, hash_fn>>
  /\ UNCHANGED non_ht_vars

Remove(key) ==
  /\ HTShiftDefined(ht)
  /\ LET r == HTRemoveResult(ht, key)
     IN /\ ht' = r.s
        /\ ht_last' = [op |-> "Remove", key |-> key, result |-> <<>>, ret |-> r.ret]
        /\ ht_stored' = [ht_stored EXCEPT ![key] = <<>>]
  /\ UNCHANGED <<header_max_depth, directory_max_depth, bucket_max_size, hash_fn>>
  /\ UNCHANGED non_ht_vars

GetValue(key) ==
  /\ LET v == HTGetValueResult(ht, key)
     IN ht_last' = [op |-> "GetValue", key |-> key, result |-> v, ret |-> v # <<>>]
  /\ UNCHANGED <<header_max_depth, directory_max_depth, bucket_max_size, hash_fn, ht, ht_stored>>
  /\ UNCHANGED non_ht_vars

HTNext ==
  \/ \E key \in Keys : Insert(key, ValueOf(key))
  \/ \E key \in Keys : Remove(key)
  \/ \E key \in Keys : GetValue(key)

SpecHT == HTStart /\ [][HTNext]_vars

\* ---------------------------------------------------------------------------
\* Properties of the hash index
\* ---------------------------------------------------------------------------

\* C1 (as claimed): in every state reached by Insert and Remove calls,
\* GetValue(k) returns the value of the last successful Insert(k, v) that no
\* Remove(k) followed, and returns false for every other key.
C1_LookupMatchesHistory ==
  \A k \in Keys : HTGetValueResult(ht, k) = ht_stored[k]

\* C6: after every Insert and Remove, in every directory page that the header
\* refers to, indices below 2^global_depth that agree modulo 2^local_depth[i]
\* have the same bucket page id and the same local depth.
SameLowBits(i, j, depth) ==
  IF depth < MaskBits THEN i % Pow2(depth) = j % Pow2(depth) ELSE i = j

DirectoryInvariant(d) ==
  \A i, j \in 0..(DirSize(d) - 1) :
    SameLowBits(i, j, d.local_depths[i])
      => /\ d.bucket_page_ids[i] = d.bucket_page_ids[j]
         /\ d.local_depths[i] = d.local_depths[j]

C6_DirectoryInvariant ==
  \A x \in DOMAIN ht.hdr :
    ht.hdr[x] # INVALID_PAGE_ID => DirectoryInvariant(ht.dirs[ht.hdr[x]])

\* C18 (as claimed): Remove(k) returns false when k is not stored: no
\* Insert of k is in effect and a lookup does not find k.
C18_RemoveMissingReturnsFalse ==
  [][\A key \in Keys :
       (/\ Remove(key)
        /\ ht_stored[key] = <<>>
        /\ HTGetValueResult(ht, key) = <<>>)
         => ~ht_last'.ret]_vars

\* C19 (as claimed): an Insert of a key that is not stored returns false only
\* when, as the call returns, the bucket that the key's hash maps to is full
\* and its local depth equals the global depth and the directory's max depth.
C19_InsertCapacityRule ==
  [][\A key \in Keys :
       (/\ Insert(key, ValueOf(key))
        /\ ht_stored[key] = <<>>
        /\ HTGetValueResult(ht, key) = <<>>
        /\ ~ht_last'.ret)
         => LET directory_page_id == ht'.hdr[HashToDirectoryIndex(Hash(key))]
                d == ht'.dirs[directory_page_id]
                bucket_idx == HashToBucketIndex(d, Hash(key))
                bucket_page_id == d.bucket_page_ids[bucket_idx]
            IN /\ directory_page_id # INVALID_PAGE_ID
               /\ bucket_page_id # INVALID_PAGE_ID
               /\ BucketIsFull(ht'.bkts[bucket_page_id])
               /\ d.local_depths[bucket_idx] = d.global_depth
               /\ d.global_depth = d.max_depth]_vars

\* ---------------------------------------------------------------------------
\* LRUKNode and LRUKReplacer.  A node is [history, is_evictable]; history is
\* the list history_, its first element the front of the list.
\* ---------------------------------------------------------------------------
Frames == 0..(pool_size - 1)

\* The frame ids a caller may pass.
FrameIds == 0..(MaxFrames - 1)

\* InsertHistoryTimestamp pushes at the front and drops the back beyond k_.
InsertHistoryTimestamp(node, ts) ==
  [node EXCEPT !.history =
     <<ts>> \o (IF Len(@) = replacer_k THEN SubSeq(@, 1, Len(@) - 1) ELSE @)]

\* history_.back()
GetBackwardKDist(node) == node.history[Len(node.history)]

\* history_.front()
GetEarliestTimestamp(node) == node.history[1]

HasInfBackwardKDist(node) == Len(node.history) < replacer_k

\* LRUKReplacer::Size counts the evictable nodes.
ReplacerSize(ns) == Cardinality({f \in DOMAIN ns : ns[f].is_evictable})

\* Evict: the result is [ret, ns] and, when ret, frame_id.
ReplacerEvict(ns) ==
  IF ReplacerSize(ns) = 0 THEN [ret |-> FALSE, ns |-> ns]
  ELSE LET evictable_nodes == {f \in DOMAIN ns : ns[f].is_evictable}
           evictable_inf_nodes == {f \in evictable_nodes : HasInfBackwardKDist(ns[f])}
           frame_id == IF evictable_inf_nodes = {}
                       THEN CHOOSE f \in evictable_nodes : \A g \in evictable_nodes :
                              GetBackwardKDist(ns[f]) <= GetBackwardKDist(ns[g])
                       ELSE CHOOSE f \in evictable_inf_nodes : \A g \in evictable_inf_nodes :
                              GetEarliestTimestamp(ns[f]) <= GetEarliestTimestamp(ns[g])
       IN [ret |-> TRUE, frame_id |-> frame_id,
           ns |-> [f \in DOMAIN ns \ {frame_id} |-> ns[f]]]

RecordAccess(ns, frame_id, ts) ==
  LET ns1 == IF frame_id \in DOMAIN ns THEN ns
             ELSE (frame_id :> [history |-> <<>>, is_evictable |-> FALSE]) @@ ns
  IN [ns1 EXCEPT ![frame_id] = InsertHistoryTimestamp(@, ts)]

\* SetEvictable asserts that the node exists.
SetEvictable(ns, frame_id, set_evictable) ==
  [ns EXCEPT ![frame_id].is_evictable = set_evictable]

ReplacerRemove(ns, frame_id) == [f \in DOMAIN ns \ {frame_id} |-> ns[f]]

\* GetCurrentTimestamp: the clock has advanced since the last reading.
GetCurrentTimestamp == current_timestamp + 1

\* ---------------------------------------------------------------------------
\* Actions of the replacer on its own
\* ---------------------------------------------------------------------------
LRUStart ==
  /\ HTIdle
  /\ TableIdle
  /\ ThreadsIdle
  /\ GuardIdle
  /\ MVCCIdle
  /\ pool_size \in 1..MaxFrames
  /\ replacer_k \in 1..MaxK
  /\ node_store = <<>>
  /\ current_timestamp = 0
  /\ pages = <<>>
  /\ page_table = <<>>
  /\ free_list = <<>>
  /\ next_page_id = 0
  /\ disk = <<>>
  /\ bpm_last = [op |-> "none", arg |-> 0, ret |-> FALSE, out |-> 0]

LRUUnchanged ==
  UNCHANGED <<replacer_k, pool_size, pages, page_table, free_list, next_page_id, disk,
              guard_vars, non_pool_vars>>

LRURecordAccess(frame_id) ==
  /\ frame_id \in Frames
  /\ current_timestamp < MaxTimestamp
  /\ node_store' = RecordAccess(node_store, frame_id, GetCurrentTimestamp)
  /\ current_timestamp' = GetCurrentTimestamp
  /\ bpm_last' = [op |-> "RecordAccess", arg |-> frame_id, ret |-> TRUE, out |-> 0]
  /\ LRUUnchanged

LRUSetEvictable(frame_id, set_evictable) ==
  /\ frame_id \in DOMAIN node_store
  /\ node_store' = SetEvictable(node_store, frame_id, set_evictable)
  /\ bpm_last' = [op |-> "SetEvictable", arg |-> frame_id, ret |-> set_evictable, out |-> 0]
  /\ UNCHANGED current_timestamp
  /\ LRUUnchanged

LRURemove(frame_id) ==
  /\ frame_id \in Frames
  /\ node_store' = ReplacerRemove(node_store, frame_id)
  /\ bpm_last' = [op |-> "Remove", arg |-> frame_id, ret |-> TRUE, out |-> 0]
  /\ UNCHANGED current_timestamp
  /\ LRUUnchanged

LRUEvict ==
  /\ LET r == ReplacerEvict(node_store)
     IN /\ node_store' = r.ns
        /\ bpm_last' = [op |-> "Evict", arg |-> 0, ret |-> r.ret,
                        out |-> IF r.ret THEN r.frame_id ELSE 0]
  /\ UNCHANGED current_timestamp
  /\ LRUUnchanged

LRUNext ==
  \/ \E frame_id \in FrameIds : LRURecordAccess(frame_id)
  \/ \E frame_id \in FrameIds, set_evictable \in BOOLEAN : LRUSetEvictable(frame_id, set_evictable)
  \/ \E frame_id \in FrameIds : LRURemove(frame_id)
  \/ LRUEvict

SpecLRU == LRUStart /\ [][LRUNext]_vars

\* ---------------------------------------------------------------------------
\* Properties of the replacer
\* ---------------------------------------------------------------------------

\* The victim the replacement policy names: among the evictable frames, the
\* one with fewer than k recorded accesses whose earliest recorded access is
\* the smallest; when every evictable frame has k accesses, the one whose
\* k-th most recent access is the oldest.  (A node keeps at most k
\* timestamps, the oldest of them at the back.)
PolicyVictim(ns) ==
  LET evictable == {f \in DOMAIN ns : ns[f].is_evictable}
      inf == {f \in evictable : Len(ns[f].history) < replacer_k}
      Oldest(f) == ns[f].history[Len(ns[f].history)]
  IN IF inf # {} THEN CHOOSE f \in inf : \A g \in inf : Oldest(f) <= Oldest(g)
     ELSE CHOOSE f \in evictable : \A g \in evictable : Oldest(f) <= Oldest(g)

\* C9 (as claimed): every successful Evict returns the victim the policy
\* names: the evictable frame with fewer than k accesses and the smallest
\* earliest access, or else the one whose k-th most recent access is oldest.
C9_EvictReturnsPolicyVictim ==
  [][(bpm_last'.op = "Evict" /\ bpm_last'.ret /\ node_store' # node_store)
       => bpm_last'.out = PolicyVictim(node_store)]_vars

\* ---------------------------------------------------------------------------
\* BufferPoolManager.  A Page is [page_id, pin_count, is_dirty, data].
\* ---------------------------------------------------------------------------
PageIds == 0..MaxPageId

\* What a caller writes into the buffer of a page; a zeroed buffer is 0.
PageContent(page_id) == page_id + 1

EmptyPage == [page_id |-> INVALID_PAGE_ID, pin_count |-> 0, is_dirty |-> FALSE, data |-> 0]

\* A write request of the disk scheduler, and a read request; a page that was
\* never written reads as zeroes.
DiskWrite(dk, page_id, data) == (page_id :> data) @@ dk

DiskRead(dk, page_id) == IF page_id \in DOMAIN dk THEN dk[page_id] ELSE 0

ResetPageMetaDataToDefault(page, page_id) ==
  [page EXCEPT !.page_id = page_id, !.is_dirty = FALSE, !.pin_count = 1]

\* A faulty variant of GetFreeFrameId: the page of the evicted frame is not
\* written to disk.
GetFreeFrameIdDropsVictim ==
  IF free_list = <<>> /\ ReplacerSize(node_store) = 0 THEN [ok |-> FALSE]
  ELSE IF free_list = <<>>
  THEN LET ev == ReplacerEvict(node_store)
           replaced_page == pages[ev.frame_id]
       IN [ok |-> TRUE, frame_id |-> ev.frame_id, free_list |-> free_list, ns |-> ev.ns,
           disk |-> disk,
           page_table |-> [p \in DOMAIN page_table \ {replaced_page.page_id} |-> page_table[p]]]
  ELSE [ok |-> TRUE, frame_id |-> Head(free_list), free_list |-> Tail(free_list),
        ns |-> node_store, disk |-> disk, page_table |-> page_table]

\* A faulty variant of GetFreeFrameId: the victim's page id stays in the page
\* table.
GetFreeFrameIdKeepsMapping ==
  IF free_list = <<>> /\ ReplacerSize(node_store) = 0 THEN [ok |-> FALSE]
  ELSE IF free_list = <<>>
  THEN LET ev == ReplacerEvict(node_store)
           replaced_page == pages[ev.frame_id]
       IN [ok |-> TRUE, frame_id |-> ev.frame_id, free_list |-> free_list, ns |-> ev.ns,
           disk |-> IF replaced_page.is_dirty
                    THEN DiskWrite(disk, replaced_page.page_id, replaced_page.data) ELSE disk,
           page_table |-> page_table]
  ELSE [ok |-> TRUE, frame_id |-> Head(free_list), free_list |-> Tail(free_list),
        ns |-> node_store, disk |-> disk, page_table |-> page_table]

\* GetFreeFrameId, on the current state: the result is [ok] when it returns
\* nullopt, and else [ok, frame_id, free_list, ns, page_table, disk].
GetFreeFrameId ==
  IF free_list = <<>> /\ ReplacerSize(node_store) = 0 THEN [ok |-> FALSE]
  ELSE IF free_list = <<>>
  THEN LET ev == ReplacerEvict(node_store)
           replaced_page == pages[ev.frame_id]
       IN [ok |-> TRUE, frame_id |-> ev.frame_id, free_list |-> free_list, ns |-> ev.ns,
           disk |-> IF replaced_page.is_dirty
                    THEN DiskWrite(disk, replaced_page.page_id, replaced_page.data) ELSE disk,
           page_table |-> [p \in DOMAIN page_table \ {replaced_page.page_id} |-> page_table[p]]]
  ELSE [ok |-> TRUE, frame_id |-> Head(free_list), free_list |-> Tail(free_list),
        ns |-> node_store, disk |-> disk, page_table |-> page_table]

BPMStart ==
  /\ HTIdle
  /\ TableIdle
  /\ ThreadsIdle
  /\ GuardIdle
  /\ MVCCIdle
  /\ pool_size \in 1..MaxPoolSize
  /\ replacer_k \in 1..MaxK
  /\ node_store = <<>>
  /\ current_timestamp = 0
  /\ pages = [f \in Frames |-> EmptyPage]
  /\ page_table = <<>>
  /\ free_list = [i \in 1..pool_size |-> i - 1]
  /\ next_page_id = 0
  /\ disk = <<>>
  /\ bpm_last = [op |-> "none", ret |-> FALSE]

NewPage ==
  LET free == GetFreeFrameId
  IN IF ~free.ok
     THEN /\ bpm_last' = [op |-> "NewPage", ret |-> FALSE]
          /\ UNCHANGED <<pages, page_table, free_list, next_page_id, disk, node_store,
                         current_timestamp>>
     ELSE LET new_page == pages[free.frame_id]
          IN /\ next_page_id <= MaxPageId
             /\ current_timestamp < MaxTimestamp
             /\ disk' = IF new_page.is_dirty
                        THEN DiskWrite(free.disk, new_page.page_id, new_page.data) ELSE free.disk
             /\ pages' = [pages EXCEPT ![free.frame_id] =
                            [ResetPageMetaDataToDefault(new_page, next_page_id) EXCEPT !.data = 0]]
             /\ next_page_id' = next_page_id + 1
             /\ page_table' = IF next_page_id \in DOMAIN free.page_table THEN free.page_table
                              ELSE (next_page_id :> free.frame_id) @@ free.page_table
             /\ free_list' = free.free_list
             /\ node_store' = SetEvictable(RecordAccess(free.ns, free.frame_id, GetCurrentTimestamp),
                                           free.frame_id, FALSE)
             /\ current_timestamp' = GetCurrentTimestamp
             /\ bpm_last' = [op |-> "NewPage", ret |-> TRUE]

\* A faulty variant of FetchPageResident: the page is pinned and the access
\* recorded, but the frame is not marked non-evictable.
FetchPageResidentStaysEvictable(page_id) ==
  LET fetch_page_frame_id == page_table[page_id]
  IN /\ current_timestamp < MaxTimestamp
     /\ pages' = [pages EXCEPT ![fetch_page_frame_id].pin_count = @ + 1]
     /\ node_store' = RecordAccess(node_store, fetch_page_frame_id, GetCurrentTimestamp)
     /\ current_timestamp' = GetCurrentTimestamp
     /\ bpm_last' = [op |-> "FetchPage", ret |-> TRUE]
     /\ UNCHANGED <<page_table, free_list, next_page_id, disk>>

\* FetchPage of a page that is in the buffer pool.
FetchPageResident(page_id) ==
  LET fetch_page_frame_id == page_table[page_id]
  IN /\ current_timestamp < MaxTimestamp
     /\ pages' = [pages EXCEPT ![fetch_page_frame_id].pin_count = @ + 1]
     /\ node_store' = SetEvictable(RecordAccess(node_store, fetch_page_frame_id, GetCurrentTimestamp),
                                   fetch_page_frame_id, FALSE)
     /\ current_timestamp' = GetCurrentTimestamp
     /\ bpm_last' = [op |-> "FetchPage", ret |-> TRUE]
     /\ UNCHANGED <<page_table, free_list, next_page_id, disk>>

FetchPage(page_id) ==
  IF page_id \in DOMAIN page_table
  THEN FetchPageResident(page_id)
  ELSE LET free == GetFreeFrameId
       IN IF ~free.ok
          THEN /\ bpm_last' = [op |-> "FetchPage", ret |-> FALSE]
               /\ UNCHANGED <<pages, page_table, free_list, next_page_id, disk, node_store,
                              current_timestamp>>
          ELSE /\ current_timestamp < MaxTimestamp
               /\ disk' = free.disk
               /\ pages' = [pages EXCEPT ![free.frame_id] =
                              [ResetPageMetaDataToDefault(@, page_id) EXCEPT
                                 !.data = DiskRead(free.disk, page_id)]]
               /\ page_table' = IF page_id \in DOMAIN free.page_table THEN free.page_table
                                ELSE (page_id :> free.frame_id) @@ free.page_table
               /\ free_list' = free.free_list
               /\ node_store' = SetEvictable(
                                  RecordAccess(ReplacerRemove(free.ns, free.frame_id),
                                               free.frame_id, GetCurrentTimestamp),
                                  free.frame_id, FALSE)
               /\ current_timestamp' = GetCurrentTimestamp
               /\ bpm_last' = [op |-> "FetchPage", ret |-> TRUE]
               /\ UNCHANGED next_page_id

\* A faulty variant of UnpinPage: the dirty flag is overwritten with the
\* caller's hint.
UnpinPageOverwritesDirty(page_id, is_dirty) ==
  IF page_id \notin DOMAIN page_table \/ pages[page_table[page_id]].pin_count = 0
  THEN /\ bpm_last' = [op |-> "UnpinPage", ret |-> FALSE]
       /\ UNCHANGED <<pages, page_table, free_list, next_page_id, disk, node_store, current_timestamp>>
  ELSE LET unpin_page_frame_id == page_table[page_id]
           unpin_page == pages[unpin_page_frame_id]
       IN /\ pages' = [pages EXCEPT ![unpin_page_frame_id] =
                         [unpin_page EXCEPT !.is_dirty = is_dirty, !.pin_count = @ - 1]]
          /\ node_store' = IF unpin_page.pin_count - 1 = 0
                           THEN SetEvictable(node_store, unpin_page_frame_id, TRUE)
                           ELSE node_store
          /\ bpm_last' = [op |-> "UnpinPage", ret |-> TRUE]
          /\ UNCHANGED <<page_table, free_list, next_page_id, disk, current_timestamp>>

\* A faulty variant of UnpinPage: the frame of a page whose pin count reaches
\* 0 is not handed to the replacer as evictable.
UnpinPageStaysNonEvictable(page_id, is_dirty) ==
  IF page_id \notin DOMAIN page_table \/ pages[page_table[page_id]].pin_count = 0
  THEN /\ bpm_last' = [op |-> "UnpinPage", ret |-> FALSE]
       /\ UNCHANGED <<pages, page_table, free_list, next_page_id, disk, node_store, current_timestamp>>
  ELSE LET unpin_page_frame_id == page_table[page_id]
           unpin_page == pages[unpin_page_frame_id]
       IN /\ pages' = [pages EXCEPT ![unpin_page_frame_id] =
                         [unpin_page EXCEPT !.is_dirty = IF ~@ /\ is_dirty THEN is_dirty ELSE @,
                                            !.pin_count = @ - 1]]
          /\ bpm_last' = [op |-> "UnpinPage", ret |-> TRUE]
          /\ UNCHANGED <<page_table, free_list, next_page_id, disk, node_store, current_timestamp>>

UnpinPage(page_id, is_dirty) ==
  IF page_id \notin DOMAIN page_table \/ pages[page_table[page_id]].pin_count = 0
  THEN /\ bpm_last' = [op |-> "UnpinPage", ret |-> FALSE]
       /\ UNCHANGED <<pages, page_table, free_list, next_page_id, disk, node_store, current_timestamp>>
  ELSE LET unpin_page_frame_id == page_table[page_id]
           unpin_page == pages[unpin_page_frame_id]
       IN /\ pages' = [pages EXCEPT ![unpin_page_frame_id] =
                         [unpin_page EXCEPT !.is_dirty = IF ~@ /\ is_dirty THEN is_dirty ELSE @,
                                            !.pin_count = @ - 1]]
          /\ node_store' = IF unpin_page.pin_count - 1 = 0
                           THEN SetEvictable(node_store, unpin_page_frame_id, TRUE)
                           ELSE node_store
          /\ bpm_last' = [op |-> "UnpinPage", ret |-> TRUE]
          /\ UNCHANGED <<page_table, free_list, next_page_id, disk, current_timestamp>>

FlushPage(page_id) ==
  IF page_id = INVALID_PAGE_ID \/ page_id \notin DOMAIN page_table
  THEN /\ bpm_last' = [op |-> "FlushPage", ret |-> FALSE]
       /\ UNCHANGED <<pages, page_table, free_list, next_page_id, disk, node_store, current_timestamp>>
  ELSE LET page_frame == page_table[page_id]
           flush_page == pages[page_frame]
       IN /\ disk' = DiskWrite(disk, flush_page.page_id, flush_page.data)
          /\ pages' = [pages EXCEPT ![page_frame].is_dirty = FALSE]
          /\ bpm_last' = [op |-> "FlushPage", ret |-> TRUE]
          /\ UNCHANGED <<page_table, free_list, next_page_id, node_store, current_timestamp>>

\* A faulty variant of DeletePage: the pin count is not looked at.
DeletePageIgnoresPin(page_id) ==
  IF page_id \notin DOMAIN page_table
  THEN /\ bpm_last' = [op |-> "DeletePage", ret |-> TRUE]
       /\ UNCHANGED <<pages, page_table, free_list, next_page_id, disk, node_store, current_timestamp>>
  ELSE LET page_frame == page_table[page_id]
       IN /\ pages' = [pages EXCEPT ![page_frame] =
                         [@ EXCEPT !.page_id = INVALID_PAGE_ID, !.is_dirty = FALSE, !.data = 0]]
          /\ page_table' = [p \in DOMAIN page_table \ {page_id} |-> page_table[p]]
          /\ node_store' = ReplacerRemove(node_store, page_frame)
          /\ free_list' = Append(free_list, page_frame)
          /\ bpm_last' = [op |-> "DeletePage", ret |-> TRUE]
          /\ UNCHANGED <<next_page_id, disk, current_timestamp>>

DeletePage(page_id) ==
  IF page_id \notin DOMAIN page_table
  THEN /\ bpm_last' = [op |-> "DeletePage", ret |-> TRUE]
       /\ UNCHANGED <<pages, page_table, free_list, next_page_id, disk, node_store, current_timestamp>>
  ELSE IF pages[page_table[page_id]].pin_count > 0
  THEN /\ bpm_last' = [op |-> "DeletePage", ret |-> FALSE]
       /\ UNCHANGED <<pages, page_table, free_list, next_page_id, disk, node_store, current_timestamp>>
  ELSE LET page_frame == page_table[page_id]
       IN /\ pages' = [pages EXCEPT ![page_frame] =
                         [@ EXCEPT !.page_id = INVALID_PAGE_ID, !.is_dirty = FALSE, !.data = 0]]
          /\ page_table' = [p \in DOMAIN page_table \ {page_id} |-> page_table[p]]
          /\ node_store' = ReplacerRemove(node_store, page_frame)
          /\ free_list' = Append(free_list, page_frame)
          /\ bpm_last' = [op |-> "DeletePage", ret |-> TRUE]
          /\ UNCHANGED <<next_page_id, disk, current_timestamp>>

\* A caller that holds a pin writes into the page's buffer through Page::GetData.
WritePageData(page_id) ==
  /\ page_id \in DOMAIN page_table
  /\ pages[page_table[page_id]].pin_count > 0
  /\ pages[page_table[page_id]].data # PageContent(page_id)
  /\ pages' = [pages EXCEPT ![page_table[page_id]].data = PageContent(page_id)]
  /\ bpm_last' = [op |-> "WritePageData", ret |-> TRUE]
  /\ UNCHANGED <<page_table, free_list, next_page_id, disk, node_store, current_timestamp>>

\* ---------------------------------------------------------------------------
\* Actions of the buffer pool without guards
\* ---------------------------------------------------------------------------
BPMUnchanged == UNCHANGED <<pool_size, replacer_k, guard_vars, non_pool_vars>>

\* The page ids a caller passes to the pool are ids the pool has allocated.
Allocated(page_id) == page_id < next_page_id

BPMNewPage == NewPage /\ BPMUnchanged

\* A page is pinned at most MaxPin times.
PinsLeft(page_id) ==
  page_id \in DOMAIN page_table => pages[page_table[page_id]].pin_count < MaxPin

BPMFetchPage(page_id) ==
  Allocated(page_id) /\ PinsLeft(page_id) /\ FetchPage(page_id) /\ BPMUnchanged

BPMUnpinPage(page_id, is_dirty) == Allocated(page_id) /\ UnpinPage(page_id, is_dirty) /\ BPMUnchanged

BPMFlushPage(page_id) == Allocated(page_id) /\ FlushPage(page_id) /\ BPMUnchanged

BPMDeletePage(page_id) == Allocated(page_id) /\ DeletePage(page_id) /\ BPMUnchanged

BPMWritePageData(page_id) == WritePageData(page_id) /\ BPMUnchanged

BPMNext ==
  \/ BPMNewPage
  \/ \E page_id \in PageIds : BPMFetchPage(page_id)
  \/ \E page_id \in PageIds, is_dirty \in BOOLEAN : BPMUnpinPage(page_id, is_dirty)
  \/ \E page_id \in PageIds : BPMFlushPage(page_id)
  \/ \E page_id \in PageIds : BPMDeletePage(page_id)
  \/ \E page_id \in PageIds : BPMWritePageData(page_id)

SpecBPM == BPMStart /\ [][BPMNext]_vars

\* ---------------------------------------------------------------------------
\* Properties of the buffer pool
\* ---------------------------------------------------------------------------
EvictableOnlyUnpinned ==
  \A f \in DOMAIN node_store : node_store[f].is_evictable => pages[f].pin_count = 0

\* A step leaves every pinned page in the page table, in its frame, with its
\* contents; only the holder of a pin changes the contents.
PinnedPageStays ==
  \A p \in DOMAIN page_table :
    LET f == page_table[p]
    IN pages[f].pin_count > 0
         => /\ p \in DOMAIN page_table'
            /\ page_table'[p] = f
            /\ pages'[f].page_id = pages[f].page_id
            /\ (bpm_last'.op # "WritePageData" => pages'[f].data = pages[f].data)

\* C8: in every reachable state a frame is evictable in the replacer only if
\* its page's pin count is 0, and no step of NewPage, FetchPage, UnpinPage,
\* FlushPage or DeletePage takes a pinned page out of the page table, moves it
\* to another frame or replaces its contents.
C8_NeverEvictsPinned ==
  EvictableOnlyUnpinned /\ [][EvictableOnlyUnpinned' /\ PinnedPageStays]_vars

\* C8 is exercised: a page is pinned and resident right after the pool has
\* refused a frame to NewPage or FetchPage because nothing was evictable.
C8_Witness ==
  /\ bpm_last.op \in {"NewPage", "FetchPage"}
  /\ ~bpm_last.ret
  /\ \E p \in DOMAIN page_table : pages[page_table[p]].pin_count > 0

\* C12: NewPage, and FetchPage of a page that is not resident, return null
\* exactly when the free list is empty and no resident page has pin count 0;
\* FetchPage of a resident page never returns null.
C12_OnlyExhaustionFails ==
  [][LET exhausted == /\ free_list = <<>>
                      /\ \A p \in DOMAIN page_table : pages[page_table[p]].pin_count > 0
     IN /\ NewPage => (~bpm_last'.ret <=> exhausted)
        /\ \A page_id \in PageIds :
             FetchPage(page_id) =>
               (~bpm_last'.ret <=> (page_id \notin DOMAIN page_table /\ exhausted))]_vars

\* FetchPage has returned null in a pool that has handed out more pages than
\* it has frames: every frame holds a pinned page.
C12_Witness ==
  /\ next_page_id > pool_size
  /\ bpm_last = [op |-> "FetchPage", ret |-> FALSE]
  /\ free_list = <<>>
  /\ \A f \in Frames : pages[f].pin_count > 0

\* C13: the contents a caller wrote into a page survive flushes and
\* evictions.  A step other than DeletePage of the page
\*  - leaves the written contents readable (in the frame while the page is
\*    resident, on disk otherwise), provided the unpinned page carries the
\*    dirty flag whenever its frame differs from the disk;
\*  - writes the frame of a dirty page to disk when it evicts the page or
\*    clears the flag;
\*  - fills the frame of a page it brings in with the page's disk contents,
\*    and leaves the disk contents of a non-resident page alone.
C13_ContentsSurvive ==
  [][\A p \in PageIds :
       LET f == page_table[p]
           resident == p \in DOMAIN page_table
           resident_after == p \in DOMAIN page_table'
           visible == IF resident THEN pages[f].data ELSE DiskRead(disk, p)
           visible_after == IF resident_after THEN pages'[page_table'[p]].data
                            ELSE DiskRead(disk', p)
       IN (p < next_page_id /\ ~DeletePage(p)) =>
            /\ (/\ visible = PageContent(p)
                /\ resident => \/ pages[f].pin_count > 0
                               \/ pages[f].is_dirty
                               \/ pages[f].data = DiskRead(disk, p))
                 => visible_after = PageContent(p)
            /\ (/\ resident
                /\ pages[f].is_dirty
                /\ ~resident_after \/ ~pages'[page_table'[p]].is_dirty)
                 => DiskRead(disk', p) = pages[f].data
            /\ ~resident => /\ visible_after = visible
                            /\ DiskRead(disk', p) = DiskRead(disk, p)]_vars

\* Page 0 was written, evicted from the only frame by NewPage of page 1, and
\* fetched again with the contents written.
C13_Witness ==
  /\ pool_size = 1
  /\ next_page_id = 2
  /\ bpm_last = [op |-> "FetchPage", ret |-> TRUE]
  /\ 0 \in DOMAIN page_table
  /\ pages[page_table[0]].data = PageContent(0)
  /\ ~pages[page_table[0]].is_dirty

\* ---------------------------------------------------------------------------
\* Page guards.  A guard object is [kind, page, is_dirty, waiting]: kind is
\* "none" when the object does not exist; page is <<>> for page_ = nullptr and
\* <<frame id>> otherwise; waiting says that the call that builds the guard
\* has pinned the page and is blocked on the frame's latch.
\* A latch is [readers, writer].
\* ---------------------------------------------------------------------------
GuardIds == 1..MaxGuards

NoGuard == [kind |-> "none", page |-> <<>>, is_dirty |-> FALSE, waiting |-> FALSE]

FreeLatch == [readers |-> 0, writer |-> FALSE]

\* BasicPageGuard::PageId
GuardPageId(guard) == pages[guard.page[1]].page_id

Holds(guard) == guard.kind # "none" /\ guard.page # <<>>

CanRLatch(f) == ~latch[f].writer

CanWLatch(f) == ~latch[f].writer /\ latch[f].readers = 0

\* The pool's variables that a call of the pool may change, bpm_last apart.
pool_state == <<pages, page_table, free_list, next_page_id, disk, node_store, current_timestamp>>

GuardUnchanged == UNCHANGED <<pool_size, replacer_k, non_pool_vars>>

GuardStart ==
  /\ HTIdle
  /\ TableIdle
  /\ ThreadsIdle
  /\ MVCCIdle
  /\ pool_size \in 1..MaxPoolSize
  /\ replacer_k \in 1..MaxK
  /\ node_store = <<>>
  /\ current_timestamp = 0
  /\ pages = [f \in Frames |-> EmptyPage]
  /\ page_table = <<>>
  /\ free_list = [i \in 1..pool_size |-> i - 1]
  /\ next_page_id = 0
  /\ disk = <<>>
  /\ bpm_last = [op |-> "none", ret |-> FALSE]
  /\ guards = [g \in GuardIds |-> NoGuard]
  /\ latch = [f \in Frames |-> FreeLatch]
  /\ crashed = FALSE

\* FetchPage followed by BasicPageGuard(bpm, page): no latch is taken.
FetchPageBasic(g, page_id) ==
  /\ ~crashed
  /\ guards[g].kind = "none"
  /\ Allocated(page_id)
  /\ FetchPage(page_id)
  /\ guards' = [guards EXCEPT ![g] =
                  [kind |-> "basic",
                   page |-> IF bpm_last'.ret THEN <<page_table'[page_id]>> ELSE <<>>,
                   is_dirty |-> FALSE, waiting |-> FALSE]]
  /\ UNCHANGED <<latch, crashed>>
  /\ GuardUnchanged

\* FetchPageRead: FetchPage, then fetch_page->RLatch(); with FetchPage
\* returning nullptr the call dereferences a null pointer.
FetchPageRead(g, page_id) ==
  /\ ~crashed
  /\ guards[g].kind = "none"
  /\ Allocated(page_id)
  /\ FetchPage(page_id)
  /\ IF ~bpm_last'.ret
     THEN crashed' = TRUE /\ UNCHANGED <<guards, latch>>
     ELSE LET f == page_table'[page_id]
          IN /\ guards' = [guards EXCEPT ![g] =
                             [kind |-> "read", page |-> <<f>>, is_dirty |-> FALSE,
                              waiting |-> ~CanRLatch(f)]]
             /\ latch' = IF CanRLatch(f) THEN [latch EXCEPT ![f].readers = @ + 1] ELSE latch
             /\ UNCHANGED crashed
  /\ GuardUnchanged

FetchPageWrite(g, page_id) ==
  /\ ~crashed
  /\ guards[g].kind = "none"
  /\ Allocated(page_id)
  /\ FetchPage(page_id)
  /\ IF ~bpm_last'.ret
     THEN crashed' = TRUE /\ UNCHANGED <<guards, latch>>
     ELSE LET f == page_table'[page_id]
          IN /\ guards' = [guards EXCEPT ![g] =
                             [kind |-> "write", page |-> <<f>>, is_dirty |-> FALSE,
                              waiting |-> ~CanWLatch(f)]]
             /\ latch' = IF CanWLatch(f) THEN [latch EXCEPT ![f].writer = TRUE] ELSE latch
             /\ UNCHANGED crashed
  /\ GuardUnchanged

NewPageGuarded(g) ==
  /\ ~crashed
  /\ guards[g].kind = "none"
  /\ NewPage
  /\ IF ~bpm_last'.ret
     THEN crashed' = TRUE /\ UNCHANGED <<guards, latch>>
     ELSE LET f == page_table'[next_page_id]
          IN /\ guards' = [guards EXCEPT ![g] =
                             [kind |-> "write", page |-> <<f>>, is_dirty |-> FALSE,
                              waiting |-> ~CanWLatch(f)]]
             /\ latch' = IF CanWLatch(f) THEN [latch EXCEPT ![f].writer = TRUE] ELSE latch
             /\ UNCHANGED crashed
  /\ GuardUnchanged

\* A call blocked in RLatch or WLatch gets the latch.
LatchGranted(g) ==
  /\ ~crashed
  /\ guards[g].waiting
  /\ LET f == guards[g].page[1]
     IN IF guards[g].kind = "read"
        THEN CanRLatch(f) /\ latch' = [latch EXCEPT ![f].readers = @ + 1]
        ELSE CanWLatch(f) /\ latch' = [latch EXCEPT ![f].writer = TRUE]
  /\ guards' = [guards EXCEPT ![g].waiting = FALSE]
  /\ UNCHANGED <<pool_state, bpm_last, crashed>>
  /\ GuardUnchanged

\* A faulty variant of Unlatched: WritePageGuard::Drop leaves the frame
\* write-latched.
UnlatchedKeepsWriter(kind, f) ==
  IF kind = "read" THEN [latch EXCEPT ![f].readers = @ - 1]
  ELSE latch

\* The latch of frame f after ReadPageGuard::Drop or WritePageGuard::Drop.
Unlatched(kind, f) ==
  IF kind = "read" THEN [latch EXCEPT ![f].readers = @ - 1]
  ELSE IF kind = "write" THEN [latch EXCEPT ![f].writer = FALSE]
  ELSE latch

\* Drop of guard g, leaving an object of kind kind_after.
DropTo(g, kind_after) ==
  /\ IF guards[g].page # <<>>
     THEN /\ UnpinPage(GuardPageId(guards[g]), guards[g].is_dirty)
          /\ latch' = Unlatched(guards[g].kind, guards[g].page[1])
     ELSE UNCHANGED <<pool_state, bpm_last, latch>>
  /\ guards' = [guards EXCEPT ![g] =
                  IF kind_after = "none" THEN NoGuard
                  ELSE [kind |-> kind_after, page |-> <<>>, is_dirty |-> @.is_dirty,
                        waiting |-> FALSE]]

Drop(g) ==
  /\ ~crashed
  /\ guards[g].kind # "none"
  /\ ~guards[g].waiting
  /\ DropTo(g, guards[g].kind)
  /\ UNCHANGED crashed
  /\ GuardUnchanged

\* The destructor: Drop, and the object is gone.
Destroy(g) ==
  /\ ~crashed
  /\ guards[g].kind # "none"
  /\ ~guards[g].waiting
  /\ DropTo(g, "none")
  /\ UNCHANGED crashed
  /\ GuardUnchanged

\* A faulty variant of MovedFrom: the guard that has been moved from keeps
\* its page.
MovedFromKeepsPage(guard) == guard

\* The guard that has been moved from.
MovedFrom(guard) == [guard EXCEPT !.page = <<>>, !.is_dirty = FALSE]

\* Guard g is built by the move constructor from guard h.
MoveConstruct(g, h) ==
  /\ ~crashed
  /\ g # h
  /\ guards[g].kind = "none"
  /\ guards[h].kind # "none"
  /\ ~guards[h].waiting
  /\ guards' = [guards EXCEPT ![g] = guards[h], ![h] = MovedFrom(guards[h])]
  /\ UNCHANGED <<pool_state, bpm_last, latch, crashed>>
  /\ GuardUnchanged

\* What BasicPageGuard::operator= can do with the page of *this: "unpin",
\* "keep" or "crash".  With page_ of that null, PageId() of that reads
\* through a null pointer, and a build may do any of the three.
BasicAssignOutcomes(this, that) ==
  IF this.page = <<>> THEN {"keep"}
  ELSE IF that.page = <<>> THEN {"unpin", "keep", "crash"}
  ELSE IF GuardPageId(this) # GuardPageId(that) THEN {"unpin"}
  ELSE {"keep"}

\* g = std::move(h) for two BasicPageGuards.
BasicMoveAssign(g, h) ==
  /\ guards[g].kind = "basic"
  /\ \E outcome \in BasicAssignOutcomes(guards[g], guards[h]) :
       /\ IF outcome = "unpin"
          THEN UnpinPage(GuardPageId(guards[g]), guards[g].is_dirty)
          ELSE UNCHANGED <<pool_state, bpm_last>>
       /\ crashed' = (outcome = "crash")
       /\ guards' = IF outcome = "crash" THEN guards
                    ELSE [guards EXCEPT ![g] = guards[h], ![h] = MovedFrom(guards[h])]
  /\ UNCHANGED latch

\* g = std::move(h) for two ReadPageGuards or two WritePageGuards: Drop(),
\* then the assignment of the BasicPageGuard inside, whose page_ is null by then.
LatchedMoveAssign(g, h) ==
  /\ guards[g].kind \in {"read", "write"}
  /\ IF guards[g].page # <<>>
     THEN /\ UnpinPage(GuardPageId(guards[g]), guards[g].is_dirty)
          /\ latch' = Unlatched(guards[g].kind, guards[g].page[1])
     ELSE UNCHANGED <<pool_state, bpm_last, latch>>
  /\ guards' = [guards EXCEPT ![g] = guards[h], ![h] = MovedFrom(guards[h])]
  /\ UNCHANGED crashed

MoveAssign(g, h) ==
  /\ ~crashed
  /\ g # h
  /\ guards[g].kind # "none"
  /\ guards[g].kind = guards[h].kind
  /\ ~guards[g].waiting
  /\ ~guards[h].waiting
  /\ (BasicMoveAssign(g, h) \/ LatchedMoveAssign(g, h))
  /\ GuardUnchanged

\* WritePageGuard::AsMut and a write through the pointer it returns.
AsMut(g) ==
  /\ ~crashed
  /\ guards[g].kind = "write"
  /\ guards[g].page # <<>>
  /\ ~guards[g].waiting
  /\ ~guards[g].is_dirty
  /\ guards' = [guards EXCEPT ![g].is_dirty = TRUE]
  /\ pages' = [pages EXCEPT ![guards[g].page[1]].data = PageContent(GuardPageId(guards[g]))]
  /\ UNCHANGED <<page_table, free_list, next_page_id, disk, node_store, current_timestamp,
                 bpm_last, latch, crashed>>
  /\ GuardUnchanged

GuardNext ==
  \/ \E g \in GuardIds, page_id \in PageIds : FetchPageBasic(g, page_id)
  \/ \E g \in GuardIds, page_id \in PageIds : FetchPageRead(g, page_id)
  \/ \E g \in GuardIds, page_id \in PageIds : FetchPageWrite(g, page_id)
  \/ \E g \in GuardIds : NewPageGuarded(g)
  \/ \E g \in GuardIds : LatchGranted(g)
  \/ \E g \in GuardIds : Drop(g)
  \/ \E g \in GuardIds : Destroy(g)
  \/ \E g, h \in GuardIds : MoveConstruct(g, h)
  \/ \E g, h \in GuardIds : MoveAssign(g, h)
  \/ \E g \in GuardIds : AsMut(g)

SpecGuard == GuardStart /\ [][GuardNext]_vars

\* ---------------------------------------------------------------------------
\* Properties of the page guards
\* ---------------------------------------------------------------------------
Quiescent == ~crashed /\ \A g \in GuardIds : ~guards[g].waiting

LiveGuards(f) == {g \in GuardIds : Holds(guards[g]) /\ guards[g].page = <<f>>}

\* C7 (as claimed): whenever no call is in progress, the pin count of every
\* resident page equals the number of live, non-empty guards (Basic, Read or
\* Write) that refer to it.
C7_PinCountIsGuardCount ==
  Quiescent =>
    \A p \in DOMAIN page_table :
      pages[page_table[p]].pin_count = Cardinality(LiveGuards(page_table[p]))

\* C14: no two live write guards, and no live write guard together with a
\* live read guard, exist for the same page; a guard is live from the moment
\* its FetchPageRead, FetchPageWrite or NewPageGuarded call has the latch
\* until it is dropped or moved from.
C14_LatchExclusion ==
  \A g, h \in GuardIds :
    (/\ g # h
     /\ guards[g].kind = "write"
     /\ guards[h].kind \in {"read", "write"}
     /\ guards[g].page # <<>> /\ ~guards[g].waiting
     /\ guards[h].page # <<>> /\ ~guards[h].waiting)
      => GuardPageId(guards[g]) # GuardPageId(guards[h])

\* A read guard holds a page that was write-latched before, while a
\* FetchPageWrite of the same page waits for the latch.
C14_Witness ==
  \E g, w \in GuardIds :
    /\ guards[g].kind = "read" /\ ~guards[g].waiting
    /\ guards[w].kind = "write" /\ guards[w].waiting
    /\ guards[g].page # <<>>
    /\ guards[g].page = guards[w].page

\* ---------------------------------------------------------------------------
\* Threads that write one page (PageGuardTest.WriteConcurrencySampleTest):
\* the page is created and its guard dropped; then every thread calls
\* FetchPageWrite on it, writes through AsMut and leaves the guard's scope.
\* ---------------------------------------------------------------------------
WritersStart ==
  /\ HTIdle
  /\ TableIdle
  /\ ThreadsIdle
  /\ MVCCIdle
  /\ pool_size \in 1..MaxPoolSize
  /\ replacer_k \in 1..MaxK
  /\ node_store = SetEvictable(SetEvictable(RecordAccess(<<>>, 0, 1), 0, FALSE), 0, TRUE)
  /\ current_timestamp = 1
  /\ pages = [f \in Frames |->
                IF f = 0 THEN [ResetPageMetaDataToDefault(EmptyPage, 0) EXCEPT !.pin_count = 0]
                ELSE EmptyPage]
  /\ page_table = (0 :> 0)
  /\ free_list = [i \in 1..(pool_size - 1) |-> i]
  /\ next_page_id = 1
  /\ disk = <<>>
  /\ bpm_last = [op |-> "UnpinPage", ret |-> TRUE]
  /\ guards = [g \in GuardIds |-> NoGuard]
  /\ latch = [f \in Frames |-> FreeLatch]
  /\ crashed = FALSE

WritersNext ==
  \/ \E g \in GuardIds : FetchPageWrite(g, 0)
  \/ \E g \in GuardIds : LatchGranted(g)
  \/ \E g \in GuardIds : AsMut(g)
  \/ \E g \in GuardIds : Destroy(g)

\* Every thread goes on running: a WLatch that can return returns, and a
\* thread that holds the guard reaches the end of its scope.
SpecWriters ==
  /\ WritersStart
  /\ [][WritersNext]_vars
  /\ \A g \in GuardIds : WF_vars(LatchGranted(g)) /\ WF_vars(Destroy(g))

\* C15: every thread that has called FetchPageWrite on the page obtains the
\* guard, and every thread that has the guard or waits for it ends with the
\* guard dropped.
C15_WritersFinish ==
  \A g \in GuardIds :
    /\ (guards[g].kind = "write" /\ guards[g].waiting)
         ~> (guards[g].kind = "write" /\ ~guards[g].waiting)
    /\ (guards[g].kind = "write") ~> (guards[g].kind = "none")

\* One thread holds the write guard while another waits for the latch.
C15_Witness ==
  \E g, h \in GuardIds :
    /\ guards[g].kind = "write" /\ ~guards[g].waiting /\ guards[g].page # <<>>
    /\ guards[h].kind = "write" /\ guards[h].waiting
    /\ guards[g].page = guards[h].page
    /\ pages[guards[g].page[1]].pin_count = 2

\* ===========================================================================
\* MVCC: TransactionManager, Watermark, table heap and the executors
\* ===========================================================================
\* Bounds of the MVCC model.
MaxTxns == 3
MaxSerialTxns == 5
MaxCommitTs == 3
MaxActive == 2
MaxRids == 1
MaxValue == 2
NumColumns == 1

\* Temporary timestamps lie above every commit timestamp (1 << 62 in the
\* program); here they start right above the largest commit timestamp.
TXN_START_ID == MaxCommitTs + 1

INVALID_TS == -1

INVALID_TXN_ID == -1

TxnIds == TXN_START_ID..(TXN_START_ID + MaxSerialTxns - 1)

\* UndoLink{}: a link that points to nothing.
InvalidLink == [prev_txn |-> INVALID_TXN_ID, prev_log_idx |-> 0]

IsValid(link) == link.prev_txn # INVALID_TXN_ID

\* A freshly constructed Transaction.
NewTransaction ==
  [state |-> "RUNNING", read_ts |-> 0, commit_ts |-> INVALID_TS,
   undo_logs |-> <<>>, write_set |-> {}]

\* No Update or Delete executor is between its conflict check and its writes.
NoExecutor == [op |-> "none", tuples_buffer |-> <<>>]

\* ---------------------------------------------------------------------------
\* Watermark
\* ---------------------------------------------------------------------------
Watermark(latest_commit_timestamp) ==
  [latest_commit_ts |-> latest_commit_timestamp,
   current_watermark |-> latest_commit_timestamp,
   active_read_timestamps |-> <<>>]

GetLatestCommitTimestamp(w) == w.latest_commit_ts

AddTxnThrows(w, read_ts) == read_ts < w.latest_commit_ts

AddTxn(w, read_ts) ==
  LET reads == w.active_read_timestamps
  IN [w EXCEPT !.active_read_timestamps =
        [ts \in DOMAIN reads \cup {read_ts} |->
           IF ts = read_ts
           THEN (IF read_ts \in DOMAIN reads THEN reads[read_ts] + 1 ELSE 1)
           ELSE reads[ts]]]

RemoveTxn(w, read_ts) ==
  LET reads == w.active_read_timestamps
  IN IF read_ts \notin DOMAIN reads THEN w
     ELSE IF reads[read_ts] - 1 # 0
     THEN [w EXCEPT !.active_read_timestamps = [reads EXCEPT ![read_ts] = reads[read_ts] - 1]]
     ELSE LET left == [ts \in DOMAIN reads \ {read_ts} |-> reads[ts]]
          IN [w EXCEPT !.active_read_timestamps = left,
                       !.current_watermark =
                          IF DOMAIN left = {} THEN w.latest_commit_ts
                          ELSE CHOOSE m \in DOMAIN left : \A ts \in DOMAIN left : m <= ts]

UpdateCommitTs(w, commit_ts) == [w EXCEPT !.latest_commit_ts = commit_ts]

GetWatermark(w) ==
  IF DOMAIN w.active_read_timestamps = {} THEN w.latest_commit_ts ELSE w.current_watermark

\* ---------------------------------------------------------------------------
\* Tuples, undo logs and version links
\* ---------------------------------------------------------------------------
\* Position of column i among the modified columns (modified_idx).
PartialIndex(modified_fields, i) == Cardinality({j \in 1..i : modified_fields[j]})

\* The k-th modified column: GetUndoLogSchema keeps the modified columns in order.
GetUndoLogSchema(modified_fields) ==
  [k \in 1..PartialIndex(modified_fields, Len(modified_fields)) |->
     CHOOSE c \in 1..Len(modified_fields) :
       modified_fields[c] /\ PartialIndex(modified_fields, c) = k]

\* The values of the modified columns of a tuple, as the undo log stores them.
PartialTuple(tuple, modified_fields) ==
  [k \in 1..Len(GetUndoLogSchema(modified_fields)) |-> tuple[GetUndoLogSchema(modified_fields)[k]]]

\* One pass of the loop of ReconstructTuple over the columns.
ApplyUndoLog(tuple, log) ==
  [i \in 1..Len(tuple) |->
     IF log.modified_fields[i] THEN log.tuple[PartialIndex(log.modified_fields, i)]
     ELSE tuple[i]]

RECURSIVE ReconstructLoop(_, _, _, _)
ReconstructLoop(tuple, is_deleted, undo_logs, i) ==
  IF i > Len(undo_logs) THEN (IF is_deleted THEN <<>> ELSE <<tuple>>)
  ELSE IF undo_logs[i].is_deleted
       THEN ReconstructLoop(tuple, TRUE, undo_logs, i + 1)
       ELSE ReconstructLoop(ApplyUndoLog(tuple, undo_logs[i]), FALSE, undo_logs, i + 1)

\* std::optional<Tuple>: <<>> or <<tuple>>.
ReconstructTuple(base_tuple, base_meta, undo_logs) ==
  ReconstructLoop(base_tuple, base_meta.is_deleted, undo_logs, 1)

\* std::optional<UndoLink>: <<>> or <<link>>.
GetUndoLink(vi, rid) == IF rid \in DOMAIN vi THEN <<vi[rid]>> ELSE <<>>

IsDanglingUndoLink(link) == link.prev_txn \notin DOMAIN txn_map

\* TransactionManager::GetUndoLog once the owning transaction has been found.
GetUndoLog(link) == txn_map[link.prev_txn].undo_logs[link.prev_log_idx + 1]

\* ---------------------------------------------------------------------------
\* SeqScanExecutor
\* ---------------------------------------------------------------------------
IsTupleVisibleToTransaction(base_meta, txn_id) ==
  txn_map[txn_id].read_ts >= base_meta.ts \/ txn_id = base_meta.ts

\* The loop of RetrieveUndoLogs: "logs", "nullopt" (the chain ended), or
\* "throw" (GetUndoLog did not find the owner of a link).
RECURSIVE RetrieveLoop(_, _, _, _)
RetrieveLoop(link, logs, read_ts, watermark) ==
  IF ~IsValid(link) THEN [kind |-> "nullopt", logs |-> <<>>]
  ELSE IF IsDanglingUndoLink(link) THEN [kind |-> "throw", logs |-> <<>>]
  ELSE LET log == GetUndoLog(link)
       IN IF log.ts <= read_ts \/ log.ts < watermark
          THEN [kind |-> "logs", logs |-> Append(logs, log)]
          ELSE RetrieveLoop(log.prev_version, Append(logs, log), read_ts, watermark)

RetrieveUndoLogs(rid, read_ts) ==
  IF GetUndoLink(version_info, rid) = <<>> THEN [kind |-> "nullopt", logs |-> <<>>]
  ELSE RetrieveLoop(version_info[rid], <<>>, read_ts, GetWatermark(running_txns))

\* [kind |-> "ok", tuple |-> <<>> or <<tuple>>] or [kind |-> "throw"].
ReconstructTupleFromTableHeapAndUndoLogs(txn_id, rid) ==
  LET base == table_heap[rid]
      read_ts == txn_map[txn_id].read_ts
      logs == RetrieveUndoLogs(rid, read_ts)
  IN IF IsTupleVisibleToTransaction(base.meta, txn_id)
     THEN [kind |-> "ok", tuple |-> IF base.meta.is_deleted THEN <<>> ELSE <<base.tuple>>]
     ELSE IF logs.kind = "throw" THEN [kind |-> "throw", tuple |-> <<>>]
     ELSE IF (logs.kind = "nullopt" \/ logs.logs = <<>>)
             /\ (base.meta.is_deleted \/ base.meta.ts > read_ts)
     THEN [kind |-> "ok", tuple |-> <<>>]
     ELSE IF logs.kind = "nullopt" THEN [kind |-> "throw", tuple |-> <<>>]
     ELSE [kind |-> "ok", tuple |-> ReconstructTuple(base.tuple, base.meta, logs.logs)]

\* SeqScanExecutor::Next fails when the reconstruction of some tuple throws.
ScanThrows(txn_id) ==
  \E rid \in 1..Len(table_heap) :
    ReconstructTupleFromTableHeapAndUndoLogs(txn_id, rid).kind = "throw"

RECURSIVE ScanLoop(_, _, _)
ScanLoop(txn_id, rid, rows) ==
  IF rid > Len(table_heap) THEN rows
  ELSE LET r == ReconstructTupleFromTableHeapAndUndoLogs(txn_id, rid)
       IN IF r.tuple = <<>> THEN ScanLoop(txn_id, rid + 1, rows)
          ELSE ScanLoop(txn_id, rid + 1, Append(rows, [rid |-> rid, tuple |-> r.tuple[1]]))

\* The rows the scan of txn_id emits, in rid order.
ScanRows(txn_id) == ScanLoop(txn_id, 1, <<>>)

\* ---------------------------------------------------------------------------
\* Helpers of the Update and Delete executors
\* ---------------------------------------------------------------------------
\* The executors work on s = [heap, undo_logs, write_set, vi]: the table
\* heap, the undo logs and write set of the running transaction, and the
\* version links.
WriteState(txn_id) ==
  [heap |-> table_heap, undo_logs |-> txn_map[txn_id].undo_logs,
   write_set |-> txn_map[txn_id].write_set, vi |-> version_info]

\* A faulty variant of CheckWriteWriteConflict: no conflict is ever found.
CheckWriteWriteConflictNever(txn_id, tuples_buffer) ==
  FALSE

CheckWriteWriteConflict(txn_id, tuples_buffer) ==
  \E i \in 1..Len(tuples_buffer) :
    LET meta == table_heap[tuples_buffer[i].rid].meta
    IN meta.ts > txn_map[txn_id].read_ts /\ meta.ts # txn_id

AppendAndLinkUndoLog(s, txn_id, rid, log) ==
  LET prev == GetUndoLink(s.vi, rid)
      linked == [log EXCEPT !.prev_version = IF prev = <<>> THEN InvalidLink ELSE prev[1]]
      new_link == [prev_txn |-> txn_id, prev_log_idx |-> Len(s.undo_logs)]
  IN [s EXCEPT !.write_set = s.write_set \cup {rid},
               !.undo_logs = Append(s.undo_logs, linked),
               !.vi = [r \in DOMAIN s.vi \cup {rid} |-> IF r = rid THEN new_link ELSE s.vi[r]]]

\* GetUndoLog(txn, rid): the first undo log of the transaction for rid, 0 if none.
GetUndoLogIndex(undo_logs, rid) ==
  LET found == {i \in 1..Len(undo_logs) : undo_logs[i].rid = rid}
  IN IF found = {} THEN 0 ELSE CHOOSE i \in found : \A j \in found : i <= j

TryUpdateUndoLog(s, rid, old_tuple, modified_fields) ==
  LET log_idx == GetUndoLogIndex(s.undo_logs, rid)
      base == s.undo_logs[log_idx]
      new_undo_log_modified_fields ==
        [c \in 1..Len(base.modified_fields) |-> base.modified_fields[c] \/ modified_fields[c]]
      values ==
        [c \in 1..Len(base.modified_fields) |->
           IF base.modified_fields[c]
           THEN base.tuple[PartialIndex(base.modified_fields, c)]
           ELSE old_tuple[c]]
  IN IF log_idx = 0 THEN s
     ELSE [s EXCEPT !.undo_logs[log_idx] =
             [base EXCEPT !.modified_fields = new_undo_log_modified_fields,
                          !.tuple = PartialTuple(values, new_undo_log_modified_fields)]]

\* The plan's target expressions: SET column 1 = column 1 + 1.
TargetExpressions(tuple) == [tuple EXCEPT ![1] = tuple[1] + 1]

RECURSIVE UpdateLoop(_, _, _, _)
UpdateLoop(txn_id, tuples_buffer, i, s) ==
  IF i > Len(tuples_buffer) THEN s
  ELSE LET old_tuple == tuples_buffer[i].tuple
           rid == tuples_buffer[i].rid
           meta == s.heap[rid].meta
           new_tuple == TargetExpressions(old_tuple)
           modified_fields == [c \in 1..Len(old_tuple) |-> old_tuple[c] # new_tuple[c]]
           logged ==
             IF meta.ts = txn_id
             THEN TryUpdateUndoLog(s, rid, old_tuple, modified_fields)
             ELSE AppendAndLinkUndoLog(s, txn_id, rid,
                    [is_deleted |-> FALSE, modified_fields |-> modified_fields,
                     tuple |-> PartialTuple(old_tuple, modified_fields), rid |-> rid,
                     ts |-> meta.ts, prev_version |-> InvalidLink])
           updated ==
             [logged EXCEPT !.heap[rid] =
                [meta |-> [ts |-> txn_id, is_deleted |-> FALSE], tuple |-> new_tuple]]
       IN UpdateLoop(txn_id, tuples_buffer, i + 1,
                     IF new_tuple = old_tuple THEN s ELSE updated)

RECURSIVE DeleteLoop(_, _, _, _)
DeleteLoop(txn_id, tuples_buffer, i, s) ==
  IF i > Len(tuples_buffer) THEN s
  ELSE LET tuple == tuples_buffer[i].tuple
           rid == tuples_buffer[i].rid
           meta == s.heap[rid].meta
           logged ==
             IF meta.ts < txn_id
             THEN AppendAndLinkUndoLog(s, txn_id, rid,
                    [is_deleted |-> FALSE, modified_fields |-> [c \in 1..Len(tuple) |-> TRUE],
                     tuple |-> tuple, rid |-> rid, ts |-> meta.ts,
                     prev_version |-> InvalidLink])
             ELSE s
       IN DeleteLoop(txn_id, tuples_buffer, i + 1,
                     [logged EXCEPT !.heap[rid].meta = [ts |-> txn_id, is_deleted |-> TRUE]])

\* ---------------------------------------------------------------------------
\* Actions of the transaction manager and the executors
\* ---------------------------------------------------------------------------
MVCCStart ==
  /\ HTIdle
  /\ TableIdle
  /\ ThreadsIdle
  /\ PoolIdle
  /\ next_txn_id = TXN_START_ID
  /\ last_commit_ts = 0
  /\ txn_map = <<>>
  /\ running_txns = Watermark(0)
  /\ table_heap = <<>>
  /\ version_info = <<>>
  /\ executors = [t \in TxnIds |-> NoExecutor]
  /\ commit_mutex = INVALID_TXN_ID
  /\ mvcc_last = [op |-> "none", txn |-> INVALID_TXN_ID, ret |-> "ok", out |-> <<>>]
  /\ terminated = FALSE

ActiveTxns == {t \in DOMAIN txn_map : txn_map[t].state \in {"RUNNING", "TAINTED"}}

\* A session runs one call of its transaction at a time and makes no call
\* after Commit has returned true or after Abort; the executors do not look
\* at the transaction's state.
CanExecute(txn_id) ==
  /\ ~terminated
  /\ txn_id \in ActiveTxns
  /\ executors[txn_id].op = "none"
  /\ commit_mutex # txn_id

Last(op, txn_id, ret, out) == [op |-> op, txn |-> txn_id, ret |-> ret, out |-> out]

\* TransactionManager::Begin.
Begin ==
  /\ ~terminated
  /\ Cardinality(ActiveTxns) < MaxActive
  /\ LET txn_id == next_txn_id
         read_ts == GetLatestCommitTimestamp(running_txns)
     IN /\ next_txn_id' = next_txn_id + 1
        /\ txn_map' = [t \in DOMAIN txn_map \cup {txn_id} |->
                         IF t = txn_id THEN [NewTransaction EXCEPT !.read_ts = read_ts]
                         ELSE txn_map[t]]
        /\ running_txns' = IF AddTxnThrows(running_txns, read_ts) THEN running_txns
                           ELSE AddTxn(running_txns, read_ts)
        /\ mvcc_last' = Last("Begin", txn_id,
                             IF AddTxnThrows(running_txns, read_ts) THEN "throw" ELSE "ok", <<>>)
  /\ UNCHANGED <<last_commit_ts, table_heap, version_info, executors, commit_mutex, terminated,
                 non_mvcc_vars>>

SeqScan(txn_id) ==
  /\ CanExecute(txn_id)
  /\ mvcc_last' = IF ScanThrows(txn_id) THEN Last("SeqScan", txn_id, "throw", <<>>)
                  ELSE Last("SeqScan", txn_id, "ok", ScanRows(txn_id))
  /\ UNCHANGED <<next_txn_id, last_commit_ts, txn_map, running_txns, table_heap, version_info,
                 executors, commit_mutex, terminated, non_mvcc_vars>>

\* INSERT INTO t VALUES (0, ...): one row from the Values child.
InsertExecutorInit(txn_id) ==
  /\ CanExecute(txn_id)
  /\ Len(table_heap) < MaxRids
  /\ table_heap' = Append(table_heap, [meta |-> [ts |-> txn_id, is_deleted |-> FALSE],
                                       tuple |-> [c \in 1..NumColumns |-> 0]])
  /\ txn_map' = [txn_map EXCEPT ![txn_id].write_set = @ \cup {Len(table_heap) + 1}]
  /\ mvcc_last' = Last("Insert", txn_id, "ok", <<>>)
  /\ UNCHANGED <<next_txn_id, last_commit_ts, running_txns, version_info, executors,
                 commit_mutex, terminated, non_mvcc_vars>>

\* How an Update or Delete executor gets past its child scan and
\* CheckWriteWriteConflict: "throw" (the scan failed), "checked",
\* "WriteConflict", or "terminate" (SetTainted on a transaction that is not
\* RUNNING).
CheckOutcome(txn_id) ==
  IF ScanThrows(txn_id) THEN "throw"
  ELSE IF ~CheckWriteWriteConflict(txn_id, ScanRows(txn_id)) THEN "checked"
  ELSE IF txn_map[txn_id].state = "RUNNING" THEN "WriteConflict"
  ELSE "terminate"

\* The executor does not get to its writes.
ExecutorFails(txn_id, op) ==
  /\ CheckOutcome(txn_id) # "checked"
  /\ txn_map' = IF CheckOutcome(txn_id) = "WriteConflict"
                THEN [txn_map EXCEPT ![txn_id].state = "TAINTED"]
                ELSE txn_map
  /\ terminated' = (CheckOutcome(txn_id) = "terminate")
  /\ mvcc_last' = Last(op, txn_id, CheckOutcome(txn_id), <<>>)
  /\ UNCHANGED <<table_heap, version_info, executors>>

\* The writes of an executor: s is what its loop leaves behind.
ExecutorWrites(txn_id, op, s) ==
  /\ table_heap' = s.heap
  /\ version_info' = s.vi
  /\ txn_map' = [txn_map EXCEPT ![txn_id].undo_logs = s.undo_logs,
                                ![txn_id].write_set = s.write_set]
  /\ executors' = [executors EXCEPT ![txn_id] = NoExecutor]
  /\ mvcc_last' = Last(op, txn_id, "ok", <<>>)
  /\ UNCHANGED terminated

ExecutorUnchanged ==
  UNCHANGED <<next_txn_id, last_commit_ts, running_txns, commit_mutex, non_mvcc_vars>>

\* An executor that other threads interleave with: first the child scan and
\* CheckWriteWriteConflict ...
ExecutorCheck(txn_id, op) ==
  /\ CanExecute(txn_id)
  /\ \/ ExecutorFails(txn_id, op)
     \/ /\ CheckOutcome(txn_id) = "checked"
        /\ executors' = [executors EXCEPT ![txn_id] =
                           [op |-> op, tuples_buffer |-> ScanRows(txn_id)]]
        /\ mvcc_last' = Last(op, txn_id, "checked", <<>>)
        /\ UNCHANGED <<txn_map, terminated, table_heap, version_info>>
  /\ ExecutorUnchanged

\* ... then its loop over the buffered tuples.
ExecutorWrite(txn_id, op, s) ==
  /\ ~terminated
  /\ executors[txn_id].op = op
  /\ ExecutorWrites(txn_id, op, s)
  /\ ExecutorUnchanged

\* An executor that runs alone from its child scan to its last write.
ExecutorInit(txn_id, op, s) ==
  /\ CanExecute(txn_id)
  /\ \/ ExecutorFails(txn_id, op)
     \/ /\ CheckOutcome(txn_id) = "checked"
        /\ ExecutorWrites(txn_id, op, s)
  /\ ExecutorUnchanged

\* The values stay below MaxValue.
ValuesLeft == \A rid \in 1..Len(table_heap) : table_heap[rid].tuple[1] < MaxValue

UpdateCheck(txn_id) ==
  /\ txn_id \in ActiveTxns
  /\ ValuesLeft
  /\ ExecutorCheck(txn_id, "Update")

UpdateWrite(txn_id) ==
  /\ executors[txn_id].op = "Update"
  /\ ExecutorWrite(txn_id, "Update",
                   UpdateLoop(txn_id, executors[txn_id].tuples_buffer, 1, WriteState(txn_id)))

DeleteCheck(txn_id) == ExecutorCheck(txn_id, "Delete")

DeleteWrite(txn_id) ==
  /\ executors[txn_id].op = "Delete"
  /\ ExecutorWrite(txn_id, "Delete",
                   DeleteLoop(txn_id, executors[txn_id].tuples_buffer, 1, WriteState(txn_id)))

UpdateExecutorInit(txn_id) ==
  /\ txn_id \in ActiveTxns
  /\ ValuesLeft
  /\ ExecutorInit(txn_id, "Update",
                  UpdateLoop(txn_id, ScanRows(txn_id), 1, WriteState(txn_id)))

DeleteExecutorInit(txn_id) ==
  /\ txn_id \in ActiveTxns
  /\ ExecutorInit(txn_id, "Delete",
                  DeleteLoop(txn_id, ScanRows(txn_id), 1, WriteState(txn_id)))

\* The stamping loop of Commit.
StampWriteSet(txn_id, commit_ts) ==
  [rid \in 1..Len(table_heap) |->
     IF rid \in txn_map[txn_id].write_set
     THEN [table_heap[rid] EXCEPT !.meta.ts = commit_ts]
     ELSE table_heap[rid]]

\* A faulty variant of CommitReturns: the transaction is removed from the
\* watermark before the commit timestamp is handed to it.
CommitReturnsRemovesFirst(txn_id, commit_ts) ==
  /\ txn_map' = [txn_map EXCEPT ![txn_id].commit_ts = commit_ts,
                                ![txn_id].state = "COMMITTED"]
  /\ running_txns' = UpdateCommitTs(RemoveTxn(running_txns, txn_map[txn_id].read_ts),
                                    commit_ts)
  /\ commit_mutex' = INVALID_TXN_ID
  /\ mvcc_last' = Last("Commit", txn_id, "true", <<>>)

\* What Commit does after the stamping loop.
CommitReturns(txn_id, commit_ts) ==
  /\ txn_map' = [txn_map EXCEPT ![txn_id].commit_ts = commit_ts,
                                ![txn_id].state = "COMMITTED"]
  /\ running_txns' = RemoveTxn(UpdateCommitTs(running_txns, commit_ts),
                               txn_map[txn_id].read_ts)
  /\ commit_mutex' = INVALID_TXN_ID
  /\ mvcc_last' = Last("Commit", txn_id, "true", <<>>)

\* A faulty variant of CanCommit: Commit does not wait for commit_mutex_.
CanCommitWithoutMutex(txn_id) ==
  CanExecute(txn_id)

CanCommit(txn_id) ==
  /\ CanExecute(txn_id)
  /\ commit_mutex = INVALID_TXN_ID

\* A faulty variant of CommitThrows: a rejected Commit also aborts the
\* transaction.
CommitThrowsAndAborts(txn_id) ==
  /\ txn_map[txn_id].state # "RUNNING"
  /\ mvcc_last' = Last("Commit", txn_id, "throw", <<>>)
  /\ txn_map' = [txn_map EXCEPT ![txn_id].state = "ABORTED"]
  /\ UNCHANGED <<last_commit_ts, table_heap, commit_mutex, running_txns>>

CommitThrows(txn_id) ==
  /\ txn_map[txn_id].state # "RUNNING"
  /\ mvcc_last' = Last("Commit", txn_id, "throw", <<>>)
  /\ UNCHANGED <<last_commit_ts, table_heap, commit_mutex, txn_map, running_txns>>

\* TransactionManager::Commit as other threads see it: up to the end of the
\* stamping loop, with the commit mutex still held ...
CommitStamp(txn_id) ==
  /\ CanCommit(txn_id)
  /\ \/ CommitThrows(txn_id)
     \/ /\ txn_map[txn_id].state = "RUNNING"
        /\ last_commit_ts < MaxCommitTs
        /\ last_commit_ts' = last_commit_ts + 1
        /\ table_heap' = StampWriteSet(txn_id, last_commit_ts + 1)
        /\ commit_mutex' = txn_id
        /\ mvcc_last' = Last("Commit", txn_id, "stamped", <<>>)
        /\ UNCHANGED <<txn_map, running_txns>>
  /\ UNCHANGED <<next_txn_id, version_info, executors, terminated, non_mvcc_vars>>

\* ... and the rest of it: Commit returns true.
CommitFinish(txn_id) ==
  /\ ~terminated
  /\ commit_mutex = txn_id
  /\ CommitReturns(txn_id, last_commit_ts)
  /\ UNCHANGED <<next_txn_id, last_commit_ts, table_heap, version_info, executors, terminated,
                 non_mvcc_vars>>

\* TransactionManager::Commit running alone.
Commit(txn_id) ==
  /\ CanCommit(txn_id)
  /\ \/ CommitThrows(txn_id)
     \/ /\ txn_map[txn_id].state = "RUNNING"
        /\ last_commit_ts < MaxCommitTs
        /\ last_commit_ts' = last_commit_ts + 1
        /\ table_heap' = StampWriteSet(txn_id, last_commit_ts + 1)
        /\ CommitReturns(txn_id, last_commit_ts + 1)
  /\ UNCHANGED <<next_txn_id, version_info, executors, terminated, non_mvcc_vars>>

Abort(txn_id) ==
  /\ CanExecute(txn_id)
  /\ IF txn_map[txn_id].state \notin {"RUNNING", "TAINTED"}
     THEN /\ mvcc_last' = Last("Abort", txn_id, "throw", <<>>)
          /\ UNCHANGED <<txn_map, running_txns>>
     ELSE /\ txn_map' = [txn_map EXCEPT ![txn_id].state = "ABORTED"]
          /\ running_txns' = RemoveTxn(running_txns, txn_map[txn_id].read_ts)
          /\ mvcc_last' = Last("Abort", txn_id, "ok", <<>>)
  /\ UNCHANGED <<next_txn_id, last_commit_ts, table_heap, version_info, executors,
                 commit_mutex, terminated, non_mvcc_vars>>

\* The walk of GarbageCollection along the chain of one rid.
RECURSIVE GCChain(_, _, _, _, _)
GCChain(link, is_first_undo_log, tuple_ts, watermark, counts) ==
  IF ~IsValid(link) \/ IsDanglingUndoLink(link) THEN counts
  ELSE LET log == GetUndoLog(link)
       IN GCChain(log.prev_version, FALSE, tuple_ts, watermark,
                  IF log.ts < watermark /\ (~is_first_undo_log \/ tuple_ts <= watermark)
                  THEN [counts EXCEPT ![link.prev_txn] = @ - 1]
                  ELSE counts)

RECURSIVE GCLoop(_, _, _)
GCLoop(rids, watermark, counts) ==
  IF rids = {} THEN counts
  ELSE LET rid == CHOOSE r \in rids : TRUE
       IN GCLoop(rids \ {rid}, watermark,
                 GCChain(version_info[rid], TRUE, table_heap[rid].meta.ts, watermark, counts))

\* txn_visible_undo_logs_counts after the marking loops.
VisibleUndoLogsCounts ==
  GCLoop(DOMAIN version_info, GetWatermark(running_txns),
         [t \in DOMAIN txn_map |-> Len(txn_map[t].undo_logs)])

GarbageCollection ==
  /\ ~terminated
  /\ LET unused == {t \in DOMAIN txn_map :
                      /\ VisibleUndoLogsCounts[t] = 0
                      /\ txn_map[t].state \in {"COMMITTED", "ABORTED"}}
     IN txn_map' = [t \in DOMAIN txn_map \ unused |-> txn_map[t]]
  /\ mvcc_last' = Last("GarbageCollection", INVALID_TXN_ID, "ok", <<>>)
  /\ UNCHANGED <<next_txn_id, last_commit_ts, running_txns, table_heap, version_info,
                 executors, commit_mutex, terminated, non_mvcc_vars>>

\* The number of transactions is bounded.
TxnsLeft(max_txns) == next_txn_id < TXN_START_ID + max_txns

\* Concurrent sessions: the steps of the executors and of Commit interleave.
MVCCBegin == TxnsLeft(MaxTxns) /\ Begin

MVCCNext ==
  \/ MVCCBegin
  \/ \E txn_id \in TxnIds : SeqScan(txn_id)
  \/ \E txn_id \in TxnIds : InsertExecutorInit(txn_id)
  \/ \E txn_id \in TxnIds : UpdateCheck(txn_id)
  \/ \E txn_id \in TxnIds : UpdateWrite(txn_id)
  \/ \E txn_id \in TxnIds : DeleteCheck(txn_id)
  \/ \E txn_id \in TxnIds : DeleteWrite(txn_id)
  \/ \E txn_id \in TxnIds : CommitStamp(txn_id)
  \/ \E txn_id \in TxnIds : CommitFinish(txn_id)
  \/ \E txn_id \in TxnIds : Abort(txn_id)
  \/ GarbageCollection

SpecMVCC == MVCCStart /\ [][MVCCNext]_vars

\* One call at a time: every executor and every Commit runs to its end
\* before the next call starts.
SerialBegin == TxnsLeft(MaxSerialTxns) /\ Begin

SerialNext ==
  \/ SerialBegin
  \/ \E txn_id \in TxnIds : SeqScan(txn_id)
  \/ \E txn_id \in TxnIds : InsertExecutorInit(txn_id)
  \/ \E txn_id \in TxnIds : UpdateExecutorInit(txn_id)
  \/ \E txn_id \in TxnIds : DeleteExecutorInit(txn_id)
  \/ \E txn_id \in TxnIds : Commit(txn_id)
  \/ \E txn_id \in TxnIds : Abort(txn_id)
  \/ GarbageCollection

SpecSerial == MVCCStart /\ [][SerialNext]_vars

\* ---------------------------------------------------------------------------
\* Properties of the MVCC layer
\* ---------------------------------------------------------------------------
\* The undo logs from a version link down to the newest one with
\* ts <= read_ts: "found", "none" (no such log), or "lost" (the owner of a
\* link on the way is no longer in txn_map).
RECURSIVE SnapshotLogs(_, _, _)
SnapshotLogs(link, logs, read_ts) ==
  IF ~IsValid(link) THEN [kind |-> "none", logs |-> <<>>]
  ELSE IF IsDanglingUndoLink(link) THEN [kind |-> "lost", logs |-> <<>>]
  ELSE LET log == GetUndoLog(link)
       IN IF log.ts <= read_ts THEN [kind |-> "found", logs |-> Append(logs, log)]
          ELSE SnapshotLogs(log.prev_version, Append(logs, log), read_ts)

\* The version of rid in the snapshot of txn_id: the base tuple if it is
\* visible, else the version rebuilt from the newest undo log with
\* ts <= read_ts; tuple is <<>> when that version is a deletion or missing.
SnapshotVersion(txn_id, rid) ==
  LET base == table_heap[rid]
      chain == IF rid \in DOMAIN version_info
               THEN SnapshotLogs(version_info[rid], <<>>, txn_map[txn_id].read_ts)
               ELSE [kind |-> "none", logs |-> <<>>]
  IN IF IsTupleVisibleToTransaction(base.meta, txn_id)
     THEN [kind |-> "ok", tuple |-> IF base.meta.is_deleted THEN <<>> ELSE <<base.tuple>>]
     ELSE IF chain.kind = "found"
     THEN [kind |-> "ok", tuple |-> ReconstructTuple(base.tuple, base.meta, chain.logs)]
     ELSE [kind |-> IF chain.kind = "none" THEN "ok" ELSE "lost", tuple |-> <<>>]

RECURSIVE SnapshotLoop(_, _, _)
SnapshotLoop(txn_id, rid, rows) ==
  IF rid > Len(table_heap) THEN rows
  ELSE LET v == SnapshotVersion(txn_id, rid)
       IN IF v.tuple = <<>> THEN SnapshotLoop(txn_id, rid + 1, rows)
          ELSE SnapshotLoop(txn_id, rid + 1, Append(rows, [rid |-> rid, tuple |-> v.tuple[1]]))

SnapshotRows(txn_id) == SnapshotLoop(txn_id, 1, <<>>)

SnapshotResolves(txn_id) ==
  \A rid \in 1..Len(table_heap) : SnapshotVersion(txn_id, rid).kind = "ok"

\* C2 (as claimed): a SeqScan of a transaction returns, for every rid, the
\* base tuple when it is visible to the transaction, otherwise the version
\* rebuilt from the newest undo log with ts <= read_ts, and nothing when that
\* version is a deletion or does not exist.
C2_SnapshotRead ==
  mvcc_last.op = "SeqScan" =>
    /\ mvcc_last.ret = "ok"
    /\ SnapshotResolves(mvcc_last.txn)
    /\ mvcc_last.out = SnapshotRows(mvcc_last.txn)

\* An Update or Delete executor of txn_id starts in this step.
OperatorStarts(txn_id) ==
  /\ txn_id \in ActiveTxns
  /\ executors[txn_id].op = "none"
  /\ mvcc_last'.txn = txn_id
  /\ mvcc_last'.op \in {"Update", "Delete"}

\* The executor of txn_id targets a rid whose base ts is above the read ts
\* of txn_id and is not its temporary ts.
TargetsConflict(txn_id) ==
  /\ ~ScanThrows(txn_id)
  /\ CheckWriteWriteConflict(txn_id, ScanRows(txn_id))

\* C3 (as claimed): when an Update or Delete executor of T targets a rid
\* with base ts > T.read_ts and base ts # T's temporary ts, T becomes
\* TAINTED, the executor fails with the write-conflict exception, and the
\* table heap, the undo logs, the version links and the write sets are as
\* they were.
C3_ConflictTaints ==
  [][\A txn_id \in TxnIds :
       (OperatorStarts(txn_id) /\ TargetsConflict(txn_id)) =>
         /\ mvcc_last'.ret = "WriteConflict"
         /\ txn_map'[txn_id].state = "TAINTED"
         /\ table_heap' = table_heap
         /\ version_info' = version_info
         /\ \A t \in DOMAIN txn_map :
              /\ txn_map'[t].undo_logs = txn_map[t].undo_logs
              /\ txn_map'[t].write_set = txn_map[t].write_set]_vars

\* The RUNNING transactions that have a modification of rid applied.
InFlightWriters(rid) ==
  {t \in DOMAIN txn_map : txn_map[t].state = "RUNNING" /\ rid \in txn_map[t].write_set}

\* C4 (as claimed): at no time do two in-flight transactions both have a
\* modification applied to the same rid.
C4_NoLostUpdate ==
  \A rid \in 1..Len(table_heap) : Cardinality(InFlightWriters(rid)) <= 1

\* C5 (as claimed): after GarbageCollection, every undo log that a SeqScan
\* of a transaction still registered in the watermark has to traverse to
\* reach its snapshot version is still found through txn_map.
C5_GarbageCollectionSafe ==
  mvcc_last.op = "GarbageCollection" =>
    \A txn_id \in ActiveTxns : SnapshotResolves(txn_id)

\* C10 (as claimed): when Commit(T) has returned true, every rid in the
\* write set of T carries the commit timestamp of T in its base meta.
C10_CommitStamps ==
  (mvcc_last.op = "Commit" /\ mvcc_last.ret = "true") =>
    \A rid \in txn_map[mvcc_last.txn].write_set :
      table_heap[rid].meta.ts = txn_map[mvcc_last.txn].commit_ts

\* C11: commit timestamps are distinct and strictly increasing in commit
\* order: a Commit that starts stamping takes a timestamp above the timestamp
\* of every Commit that stamped before it, no other Commit is in its stamping
\* phase at that moment, and a Commit that returns true records the timestamp
\* it stamped with.
C11_CommitOrder ==
  [][/\ (mvcc_last'.op = "Commit" /\ mvcc_last'.ret = "stamped") =>
          /\ commit_mutex = INVALID_TXN_ID
          /\ last_commit_ts' = last_commit_ts + 1
          /\ \A t \in DOMAIN txn_map :
               txn_map[t].state = "COMMITTED" => txn_map[t].commit_ts < last_commit_ts'
     /\ (mvcc_last'.op = "Commit" /\ mvcc_last'.ret = "true") =>
          /\ txn_map'[mvcc_last'.txn].commit_ts = last_commit_ts'
          /\ \A t \in DOMAIN txn_map :
               txn_map[t].state = "COMMITTED" =>
                 txn_map[t].commit_ts < txn_map'[mvcc_last'.txn].commit_ts]_vars

\* A second Commit has stamped while another transaction with writes is
\* still running.
C11_Witness ==
  /\ mvcc_last.op = "Commit"
  /\ mvcc_last.ret = "stamped"
  /\ \E t \in DOMAIN txn_map : txn_map[t].state = "COMMITTED"
  /\ \E t \in DOMAIN txn_map :
       /\ t # mvcc_last.txn
       /\ txn_map[t].state = "RUNNING"
       /\ txn_map[t].write_set # {}

\* C17: over the calls of Begin, Commit and Abort the value returned by
\* GetWatermark never decreases.
C17_WatermarkMonotonic ==
  [][GetWatermark(running_txns') >= GetWatermark(running_txns)]_vars

\* The watermark has advanced past a commit while a transaction that began
\* after that commit is still registered.
C17_Witness ==
  /\ mvcc_last.op \in {"Commit", "Abort"}
  /\ GetWatermark(running_txns) >= 2
  /\ running_txns.active_read_timestamps # <<>>

\* ---------------------------------------------------------------------------
\* A Watermark object on its own: any sequence of AddTxn, RemoveTxn and
\* UpdateCommitTs calls in which AddTxn and UpdateCommitTs meet their checks.
\* ---------------------------------------------------------------------------
WatermarkStart ==
  /\ HTIdle
  /\ TableIdle
  /\ ThreadsIdle
  /\ PoolIdle
  /\ next_txn_id = 0
  /\ last_commit_ts = 0
  /\ txn_map = <<>>
  /\ running_txns = Watermark(0)
  /\ table_heap = <<>>
  /\ version_info = <<>>
  /\ executors = <<>>
  /\ commit_mutex = 0
  /\ mvcc_last = <<>>
  /\ terminated = FALSE

WatermarkAddTxn(read_ts) ==
  /\ ~AddTxnThrows(running_txns, read_ts)
  /\ read_ts \in DOMAIN running_txns.active_read_timestamps
       => running_txns.active_read_timestamps[read_ts] < MaxActive
  /\ running_txns' = AddTxn(running_txns, read_ts)
  /\ UNCHANGED <<next_txn_id, last_commit_ts, txn_map, table_heap, version_info, executors,
                 commit_mutex, mvcc_last, terminated, non_mvcc_vars>>

WatermarkRemoveTxn(read_ts) ==
  /\ running_txns' = RemoveTxn(running_txns, read_ts)
  /\ UNCHANGED <<next_txn_id, last_commit_ts, txn_map, table_heap, version_info, executors,
                 commit_mutex, mvcc_last, terminated, non_mvcc_vars>>

WatermarkUpdateCommitTs(commit_ts) ==
  /\ commit_ts > running_txns.latest_commit_ts
  /\ running_txns' = UpdateCommitTs(running_txns, commit_ts)
  /\ UNCHANGED <<next_txn_id, last_commit_ts, txn_map, table_heap, version_info, executors,
                 commit_mutex, mvcc_last, terminated, non_mvcc_vars>>

WatermarkNext ==
  \/ \E read_ts \in 0..MaxCommitTs : WatermarkAddTxn(read_ts)
  \/ \E read_ts \in 0..MaxCommitTs : WatermarkRemoveTxn(read_ts)
  \/ \E commit_ts \in 0..MaxCommitTs : WatermarkUpdateCommitTs(commit_ts)

SpecWatermark == WatermarkStart /\ [][WatermarkNext]_vars

\* C16 (as claimed): GetWatermark returns the smallest read timestamp whose
\* reference count is positive, or the latest commit timestamp when no read
\* timestamp is registered.
C16_WatermarkValue ==
  LET reads == DOMAIN running_txns.active_read_timestamps
  IN GetWatermark(running_txns) =
       IF reads = {} THEN running_txns.latest_commit_ts
       ELSE CHOOSE m \in reads : \A ts \in reads : m <= ts

\* ---------------------------------------------------------------------------
\* The life of a transaction: the concurrent sessions, and callers that hand
\* a transaction that has ended to Commit or Abort again.
\* ---------------------------------------------------------------------------
EndedTxns == {t \in DOMAIN txn_map : txn_map[t].state \in {"COMMITTED", "ABORTED"}}

\* TransactionManager::Commit on a transaction that has ended: it takes the
\* commit mutex and throws.
CommitEnded(txn_id) ==
  /\ ~terminated
  /\ txn_id \in EndedTxns
  /\ commit_mutex = INVALID_TXN_ID
  /\ CommitThrows(txn_id)
  /\ UNCHANGED <<next_txn_id, version_info, executors, terminated, non_mvcc_vars>>

\* TransactionManager::Abort on a transaction that has ended: it throws
\* before it takes any lock.
AbortEnded(txn_id) ==
  /\ ~terminated
  /\ txn_id \in EndedTxns
  /\ txn_map[txn_id].state # "RUNNING"
  /\ txn_map[txn_id].state # "TAINTED"
  /\ mvcc_last' = Last("Abort", txn_id, "throw", <<>>)
  /\ UNCHANGED <<txn_map, running_txns, next_txn_id, last_commit_ts, table_heap, version_info,
                 executors, commit_mutex, terminated, non_mvcc_vars>>

LifecycleNext ==
  \/ MVCCNext
  \/ \E txn_id \in TxnIds : CommitEnded(txn_id)
  \/ \E txn_id \in TxnIds : AbortEnded(txn_id)

SpecLifecycle == MVCCStart /\ [][LifecycleNext]_vars

\* C20: a transaction starts RUNNING; its state changes only from RUNNING to
\* TAINTED (SetTainted in an executor that met a write-write conflict), from
\* RUNNING to COMMITTED (a Commit that returns true) and from RUNNING or
\* TAINTED to ABORTED (an Abort that returns); COMMITTED and ABORTED are never
\* left; a Commit on a transaction that is not RUNNING and an Abort on a
\* COMMITTED or ABORTED transaction throw and leave the state as it was.
C20_TransactionStates ==
  [][/\ \A t \in DOMAIN txn_map' \ DOMAIN txn_map : txn_map'[t].state = "RUNNING"
     /\ \A t \in DOMAIN txn_map \cap DOMAIN txn_map' :
          LET from == txn_map[t].state
              to == txn_map'[t].state
          IN from # to =>
               \/ /\ from = "RUNNING"
                  /\ to = "TAINTED"
                  /\ mvcc_last' \in {Last("Update", t, "WriteConflict", <<>>),
                                     Last("Delete", t, "WriteConflict", <<>>)}
               \/ /\ from = "RUNNING"
                  /\ to = "COMMITTED"
                  /\ mvcc_last' = Last("Commit", t, "true", <<>>)
               \/ /\ from \in {"RUNNING", "TAINTED"}
                  /\ to = "ABORTED"
                  /\ mvcc_last' = Last("Abort", t, "ok", <<>>)
     /\ \A t \in DOMAIN txn_map :
          /\ ((CommitStamp(t) \/ Commit(t) \/ CommitEnded(t)) /\ txn_map[t].state # "RUNNING")
               => (mvcc_last' = Last("Commit", t, "throw", <<>>) /\ txn_map' = txn_map)
          /\ ((Abort(t) \/ AbortEnded(t)) /\ txn_map[t].state \in {"COMMITTED", "ABORTED"})
               => (mvcc_last' = Last("Abort", t, "throw", <<>>) /\ txn_map' = txn_map)]_vars

\* An Abort of a COMMITTED transaction has just been rejected while another
\* transaction is TAINTED and a third one is ABORTED.
C20_Witness ==
  /\ mvcc_last.op = "Abort"
  /\ mvcc_last.ret = "throw"
  /\ mvcc_last.txn \in DOMAIN txn_map
  /\ txn_map[mvcc_last.txn].state = "COMMITTED"
  /\ \E t \in DOMAIN txn_map : txn_map[t].state = "TAINTED"
  /\ \E t \in DOMAIN txn_map : txn_map[t].state = "ABORTED"

\* ---------------------------------------------------------------------------
\* Writes of aborted transactions
\* ---------------------------------------------------------------------------
\* The base tuple of rid carries the temporary ts of a transaction that was
\* aborted (Abort leaves the writes in the heap; GarbageCollection may have
\* erased the transaction since).
AbortedOwner(rid) ==
  LET ts == table_heap[rid].meta.ts
  IN /\ ts >= TXN_START_ID
     /\ ts \in DOMAIN txn_map => txn_map[ts].state = "ABORTED"

\* std::optional<Tuple>: what a scan returned for rid.
ScanRowOf(out, rid) ==
  IF \E i \in 1..Len(out) : out[i].rid = rid
  THEN <<out[CHOOSE i \in 1..Len(out) : out[i].rid = rid].tuple>>
  ELSE <<>>

\* C21: a SeqScan of a transaction other than an aborted T returns, for every
\* rid that T wrote last, the version that was there for the reader before T
\* wrote: nothing if T inserted the rid, otherwise the version rebuilt from
\* the undo logs down to the newest one with ts <= read_ts; never the value
\* or the deletion that T left in the heap.
C21_AbortedWritesInvisible ==
  (mvcc_last.op = "SeqScan" /\ mvcc_last.txn \in DOMAIN txn_map) =>
    \A rid \in 1..Len(table_heap) :
      (AbortedOwner(rid) /\ table_heap[rid].meta.ts # mvcc_last.txn) =>
        LET base == table_heap[rid]
            chain == IF rid \in DOMAIN version_info
                     THEN SnapshotLogs(version_info[rid], <<>>, txn_map[mvcc_last.txn].read_ts)
                     ELSE [kind |-> "none", logs |-> <<>>]
        IN /\ mvcc_last.ret = "ok"
           /\ chain.kind # "lost"
           /\ ScanRowOf(mvcc_last.out, rid) =
                IF chain.kind = "found"
                THEN ReconstructTuple(base.tuple, base.meta, chain.logs)
                ELSE <<>>

\* A scan has returned the old value of a row that an aborted transaction
\* had updated.
C21_Witness ==
  /\ mvcc_last.op = "SeqScan"
  /\ mvcc_last.ret = "ok"
  /\ mvcc_last.txn \in DOMAIN txn_map
  /\ \E rid \in 1..Len(table_heap) :
       /\ AbortedOwner(rid)
       /\ table_heap[rid].meta.ts # mvcc_last.txn
       /\ ~table_heap[rid].meta.is_deleted
       /\ ScanRowOf(mvcc_last.out, rid) # <<>>
       /\ ScanRowOf(mvcc_last.out, rid) # <<table_heap[rid].tuple>>

\* ---------------------------------------------------------------------------
\* Version chains
\* ---------------------------------------------------------------------------
\* The number of undo logs there are: no acyclic chain is longer.
UndoLogCount ==
  LET RECURSIVE Sum(_)
      Sum(txns) == IF txns = {} THEN 0
                   ELSE LET t == CHOOSE x \in txns : TRUE
                        IN Len(txn_map[t].undo_logs) + Sum(txns \ {t})
  IN Sum(DOMAIN txn_map)

\* The ts of the undo logs reached from link through prev_version, in the
\* order they are reached; the walk stops at an invalid link and at a link
\* whose owner is gone, and gives up (with a ts above every other) when it
\* has made more steps than there are undo logs.
RECURSIVE ChainTimestamps(_, _)
ChainTimestamps(link, tss) ==
  IF ~IsValid(link) \/ IsDanglingUndoLink(link) THEN tss
  ELSE IF Len(tss) > UndoLogCount THEN Append(tss, TXN_START_ID + MaxSerialTxns)
  ELSE ChainTimestamps(GetUndoLog(link).prev_version, Append(tss, GetUndoLog(link).ts))

\* The base ts of rid followed by the ts of its undo logs.
VersionChain(rid) ==
  <<table_heap[rid].meta.ts>> \o
    (IF rid \in DOMAIN version_info THEN ChainTimestamps(version_info[rid], <<>>) ELSE <<>>)

StrictlyDecreasing(tss) == \A i \in 1..(Len(tss) - 1) : tss[i] > tss[i + 1]

Evaluate(value, tuple) == tuple[1] = value

\* SeqScanExecutor::Next reaches the reconstruction only for the rids whose
\* base tuple passes the predicate.
ScanWhereThrows(txn_id, value) ==
  \E rid \in 1..Len(table_heap) :
    /\ Evaluate(value, table_heap[rid].tuple)
    /\ ReconstructTupleFromTableHeapAndUndoLogs(txn_id, rid).kind = "throw"

\* The loop of SeqScanExecutor::Next over the calls that drain the scan.
RECURSIVE ScanWhereLoop(_, _, _, _)
ScanWhereLoop(txn_id, value, rid, rows) ==
  IF rid > Len(table_heap) THEN rows
  ELSE IF ~Evaluate(value, table_heap[rid].tuple)
       THEN ScanWhereLoop(txn_id, value, rid + 1, rows)
       ELSE LET r == ReconstructTupleFromTableHeapAndUndoLogs(txn_id, rid)
            IN IF r.tuple = <<>> THEN ScanWhereLoop(txn_id, value, rid + 1, rows)
               ELSE ScanWhereLoop(txn_id, value, rid + 1,
                                  Append(rows, [rid |-> rid, tuple |-> r.tuple[1]]))

SeqScanWhere(txn_id, value) ==
  /\ CanExecute(txn_id)
  /\ mvcc_last' =
       IF ScanWhereThrows(txn_id, value)
       THEN Last("SeqScanWhere", txn_id, "throw", [value |-> value, rows |-> <<>>])
       ELSE Last("SeqScanWhere", txn_id, "ok",
                 [value |-> value, rows |-> ScanWhereLoop(txn_id, value, 1, <<>>)])
  /\ UNCHANGED <<next_txn_id, last_commit_ts, txn_map, running_txns, table_heap, version_info,
                 executors, commit_mutex, terminated, non_mvcc_vars>>

\* One call at a time, scans with and without a predicate.
FilterNext ==
  \/ MVCCBegin
  \/ \E txn_id \in TxnIds : InsertExecutorInit(txn_id)
  \/ \E txn_id \in TxnIds : UpdateExecutorInit(txn_id)
  \/ \E txn_id \in TxnIds : DeleteExecutorInit(txn_id)
  \/ \E txn_id \in TxnIds : Commit(txn_id)
  \/ \E txn_id \in TxnIds : Abort(txn_id)
  \/ \E txn_id \in TxnIds : SeqScan(txn_id)
  \/ \E txn_id \in TxnIds, value \in 0..MaxValue : SeqScanWhere(txn_id, value)

SpecFilter == MVCCStart /\ [][FilterNext]_vars

\* The rows of a sequence of rows that satisfy the predicate.
RECURSIVE Satisfying(_, _)
Satisfying(rows, value) ==
  IF rows = <<>> THEN <<>>
  ELSE (IF Evaluate(value, rows[1].tuple) THEN <<rows[1]>> ELSE <<>>)
         \o Satisfying(Tail(rows), value)

\* C23 (as claimed): a SeqScan with a filter predicate returns exactly the
\* rids whose version in the snapshot of the transaction exists and
\* satisfies the predicate, with that version, whatever the base tuple is.
C23_FilterOnVisibleVersion ==
  mvcc_last.op = "SeqScanWhere" =>
    /\ mvcc_last.ret = "ok"
    /\ mvcc_last.out.rows = Satisfying(SnapshotRows(mvcc_last.txn), mvcc_last.out.value)

\* ===========================================================================
\* TableHeap and TableIterator: scanning threads and inserting threads
\* ===========================================================================
MaxSlots == 2
MaxTablePages == 2
MaxIterators == 2

IteratorIds == 1..MaxIterators

\* RID{page_id, slot_num}
INVALID_RID == <<INVALID_PAGE_ID, 0>>

\* TableHeap::first_page_id_: the first page the pool hands out.
first_page_id == 0

\* TablePage::Init
TablePageInit == [num_tuples |-> 0, next_page_id |-> INVALID_PAGE_ID]

\* TablePage::GetNextTupleOffset: all tuples have one size and MaxSlots of
\* them fill a page.
GetNextTupleOffset(page) == IF page.num_tuples < MaxSlots THEN <<page.num_tuples>> ELSE <<>>

\* A TableIterator that has not been made yet.  snapshot_lo and snapshot_hi
\* are history: the number of tuples in the heap when MakeIterator started
\* and when the constructor of the iterator returned.
NoIterator ==
  [pc |-> "none", last_page_id |-> INVALID_PAGE_ID, rid |-> INVALID_RID,
   stop_at_rid |-> INVALID_RID, yielded |-> <<>>, snapshot_lo |-> 0, snapshot_hi |-> 0]

\* The rids of the heap in page order, then slot order.
RECURSIVE RidsFrom(_, _)
RidsFrom(page_id, rids) ==
  IF page_id = INVALID_PAGE_ID \/ page_id \notin DOMAIN heap_pages THEN rids
  ELSE RidsFrom(heap_pages[page_id].next_page_id,
                rids \o [slot \in 1..heap_pages[page_id].num_tuples |-> <<page_id, slot - 1>>])

HeapRids == RidsFrom(first_page_id, <<>>)

\* The page is write-latched by the InsertTuple that holds latch_.
WriteLatched(page_id) == heap_latch = "held" /\ page_id = last_page_id

\* TableHeap::TableHeap
TableStart ==
  /\ HTIdle
  /\ PoolIdle
  /\ MVCCIdle
  /\ ThreadsIdle
  /\ heap_pages = (first_page_id :> TablePageInit)
  /\ last_page_id = first_page_id
  /\ heap_latch = "free"
  /\ iterators = [it \in IteratorIds |-> NoIterator]

TableUnchanged == UNCHANGED <<ht_vars, replacer_vars, bpm_vars, guard_vars, mvcc_vars, thread_vars>>

\* TableHeap::InsertTuple when the last page has room.
InsertTupleFits ==
  /\ heap_latch = "free"
  /\ GetNextTupleOffset(heap_pages[last_page_id]) # <<>>
  /\ heap_pages' = [heap_pages EXCEPT ![last_page_id].num_tuples = @ + 1]
  /\ UNCHANGED <<last_page_id, heap_latch, iterators>>
  /\ TableUnchanged

\* TableHeap::InsertTuple when the last page is full: the loop links a new
\* page and moves last_page_id_ and the page guard to it ...
InsertTupleNewPage ==
  /\ heap_latch = "free"
  /\ GetNextTupleOffset(heap_pages[last_page_id]) = <<>>
  /\ last_page_id + 1 < MaxTablePages
  /\ LET next_page_id_ == last_page_id + 1
     IN /\ heap_pages' = (next_page_id_ :> TablePageInit) @@
                           [heap_pages EXCEPT ![last_page_id].next_page_id = next_page_id_]
        /\ last_page_id' = next_page_id_
  /\ heap_latch' = "held"
  /\ UNCHANGED iterators
  /\ TableUnchanged

\* ... and then the tuple goes into the new page and latch_ is released.
InsertTupleFinish ==
  /\ heap_latch = "held"
  /\ heap_pages' = [heap_pages EXCEPT ![last_page_id].num_tuples = @ + 1]
  /\ heap_latch' = "free"
  /\ UNCHANGED <<last_page_id, iterators>>
  /\ TableUnchanged

\* TableHeap::MakeIterator: last_page_id_ is read under latch_ ...
MakeIteratorLatch(it) ==
  /\ iterators[it].pc = "none"
  /\ heap_latch = "free"
  /\ iterators' = [iterators EXCEPT ![it].pc = "last_page_read",
                                    ![it].last_page_id = last_page_id,
                                    ![it].snapshot_lo = Len(HeapRids)]
  /\ UNCHANGED <<heap_pages, last_page_id, heap_latch>>
  /\ TableUnchanged

\* ... then the number of tuples of that page is read under the page latch.
MakeIteratorStop(it) ==
  /\ iterators[it].pc = "last_page_read"
  /\ ~WriteLatched(iterators[it].last_page_id)
  /\ iterators' = [iterators EXCEPT
                     ![it].pc = "stop_read",
                     ![it].stop_at_rid = <<iterators[it].last_page_id,
                                           heap_pages[iterators[it].last_page_id].num_tuples>>]
  /\ UNCHANGED <<heap_pages, last_page_id, heap_latch>>
  /\ TableUnchanged

\* TableIterator::TableIterator(table_heap, {first_page_id_, 0}, stop_at_rid)
TableIterator(it) ==
  /\ iterators[it].pc = "stop_read"
  /\ ~WriteLatched(first_page_id)
  /\ iterators' = [iterators EXCEPT
                     ![it].pc = "ready",
                     ![it].rid = IF 0 >= heap_pages[first_page_id].num_tuples
                                 THEN INVALID_RID ELSE <<first_page_id, 0>>,
                     ![it].snapshot_hi = Len(HeapRids)]
  /\ UNCHANGED <<heap_pages, last_page_id, heap_latch>>
  /\ TableUnchanged

\* TableIterator::IsEnd returns true: the scan is over.
IsEnd(it) ==
  /\ iterators[it].pc = "ready"
  /\ iterators[it].rid = INVALID_RID
  /\ iterators' = [iterators EXCEPT ![it].pc = "end"]
  /\ UNCHANGED <<heap_pages, last_page_id, heap_latch>>
  /\ TableUnchanged

\* TableIterator::GetTuple and GetRID: the scan takes the tuple at rid_.
GetTuple(it) ==
  /\ iterators[it].pc = "ready"
  /\ iterators[it].rid # INVALID_RID
  /\ ~WriteLatched(iterators[it].rid[1])
  /\ iterators' = [iterators EXCEPT ![it].pc = "got_tuple",
                                    ![it].yielded = Append(@, iterators[it].rid)]
  /\ UNCHANGED <<heap_pages, last_page_id, heap_latch>>
  /\ TableUnchanged

\* The condition of the BUSTUB_ASSERT of operator++.
InBound(rid, stop_at_rid) ==
  \/ rid[1] < stop_at_rid[1]
  \/ rid[1] = stop_at_rid[1] /\ rid[2] + 1 <= stop_at_rid[2]

\* rid_ after operator++.
NextRid(rid, stop_at_rid) ==
  LET page == heap_pages[rid[1]]
      next_tuple_id == rid[2] + 1
  IN IF <<rid[1], next_tuple_id>> = stop_at_rid THEN INVALID_RID
     ELSE IF next_tuple_id < page.num_tuples THEN <<rid[1], next_tuple_id>>
     ELSE <<page.next_page_id, 0>>

\* TableIterator::operator++.  When the assertion does not hold, a build
\* with assertions aborts and a build without them goes on.
OperatorIncrement(it) ==
  /\ iterators[it].pc = "got_tuple"
  /\ ~WriteLatched(iterators[it].rid[1])
  /\ \/ /\ iterators[it].stop_at_rid[1] # INVALID_PAGE_ID
        /\ ~InBound(iterators[it].rid, iterators[it].stop_at_rid)
        /\ iterators' = [iterators EXCEPT ![it].pc = "aborted"]
     \/ iterators' = [iterators EXCEPT
                        ![it].pc = "ready",
                        ![it].rid = NextRid(iterators[it].rid, iterators[it].stop_at_rid)]
  /\ UNCHANGED <<heap_pages, last_page_id, heap_latch>>
  /\ TableUnchanged

TableNext ==
  \/ InsertTupleFits
  \/ InsertTupleNewPage
  \/ InsertTupleFinish
  \/ \E it \in IteratorIds : MakeIteratorLatch(it)
  \/ \E it \in IteratorIds : MakeIteratorStop(it)
  \/ \E it \in IteratorIds : TableIterator(it)
  \/ \E it \in IteratorIds : IsEnd(it)
  \/ \E it \in IteratorIds : GetTuple(it)
  \/ \E it \in IteratorIds : OperatorIncrement(it)

SpecTable == TableStart /\ [][TableNext]_vars

C25_DirtyAccumulates ==
  [][\A page_id \in PageIds :
       LET resident == page_id \in DOMAIN page_table
           resident_after == page_id \in DOMAIN page_table'
           is_dirty == pages[page_table[page_id]].is_dirty
           is_dirty_after == pages'[page_table'[page_id]].is_dirty
           unpinned(hint) == resident /\ UnpinPage(page_id, hint) /\ bpm_last'.ret
           flushed == resident /\ FlushPage(page_id)
       IN /\ (~resident /\ resident_after) => ~is_dirty_after
          /\ \A hint \in BOOLEAN :
               unpinned(hint) => (resident_after /\ is_dirty_after = (is_dirty \/ hint))
          /\ flushed => (resident_after /\ ~is_dirty_after)
          /\ (resident /\ resident_after /\ ~flushed /\ \A hint \in BOOLEAN : ~unpinned(hint))
               => is_dirty_after = is_dirty]_vars

\* A page that was unpinned, fetched again and unpinned again is dirty.
C25_Witness ==
  /\ bpm_last = [op |-> "UnpinPage", ret |-> TRUE]
  /\ current_timestamp >= 2
  /\ next_page_id = 1
  /\ 0 \in DOMAIN page_table
  /\ pages[page_table[0]].is_dirty
  /\ pages[page_table[0]].pin_count = 0

\* C26: DeletePage on a resident page with pin_count > 0 returns false and
\* changes nothing; on a resident page with pin_count 0 it returns true,
\* takes the page out of the page table and its frame out of the replacer,
\* and appends the frame to the free list.
C26_DeleteOnlyUnpinned ==
  [][\A page_id \in PageIds :
       (DeletePage(page_id) /\ page_id \in DOMAIN page_table) =>
         LET page_frame == page_table[page_id]
         IN IF pages[page_frame].pin_count > 0
            THEN /\ ~bpm_last'.ret
                 /\ UNCHANGED <<pages, page_table, free_list, node_store, disk, next_page_id>>
            ELSE /\ bpm_last'.ret
                 /\ page_id \notin DOMAIN page_table'
                 /\ page_frame \notin DOMAIN node_store'
                 /\ free_list' = Append(free_list, page_frame)]_vars

\* DeletePage has just refused a pinned page.
C26_Witness ==
  /\ bpm_last = [op |-> "DeletePage", ret |-> FALSE]
  /\ \E page_id \in DOMAIN page_table : pages[page_table[page_id]].pin_count > 0


\* ---------------------------------------------------------------------------
\* The insertion scenario of the hash index: header_max_depth 2,
\* directory_max_depth 3, bucket_max_size 2, the identity hash, and the keys
\* 4, 12, 16, 1, 5, 9, 13.  The keys may be inserted in any order, each with
\* its position in the order of insertion as its value, so that the stored
\* values tell the order; nothing is inserted after an insert that failed.
\* ---------------------------------------------------------------------------
ScenarioHeaderMaxDepth == 2
ScenarioDirectoryMaxDepth == 3
ScenarioBucketMaxSize == 2
ScenarioOrder == <<4, 12, 16, 1, 5, 9, 13>>
ScenarioDepths == <<1, 2, 2, 2, 3, 3, 3>>
ScenarioKeys == {ScenarioOrder[i] : i \in DOMAIN ScenarioOrder}

ScenarioStart ==
  /\ header_max_depth = ScenarioHeaderMaxDepth
  /\ directory_max_depth = ScenarioDirectoryMaxDepth
  /\ bucket_max_size = ScenarioBucketMaxSize
  /\ hash_fn = [k \in ScenarioKeys |-> <<0, k>>]
  /\ ht = HTInit(header_max_depth)
  /\ ht_last = [op |-> "none", key |-> 0, result |-> <<>>, ret |-> FALSE]
  /\ ht_stored = [k \in ScenarioKeys |-> <<>>]
  /\ PoolIdle
  /\ MVCCIdle
  /\ TableIdle
  /\ ThreadsIdle

ScenarioStored == {k \in ScenarioKeys : ht_stored[k] # <<>>}

ScenarioInsert(key) ==
  /\ ht_stored[key] = <<>>
  /\ ht_last.op = "Insert" => ht_last.ret
  /\ LET value == Cardinality(ScenarioStored) + 1
         r == HTInsertResult(ht, key, value)
     IN /\ ht' = r.s
        /\ ht_last' = [op |-> "Insert", key |-> key, result |-> <<>>, ret |-> r.ret]
        /\ ht_stored' = IF r.ret THEN [ht_stored EXCEPT ![key] = <<value>>] ELSE ht_stored
  /\ UNCHANGED <<header_max_depth, directory_max_depth, bucket_max_size, hash_fn>>
  /\ UNCHANGED non_ht_vars

ScenarioNext == \E key \in ScenarioKeys : ScenarioInsert(key)

SpecScenario == ScenarioStart /\ [][ScenarioNext]_vars

\* The first n keys of the scenario have been inserted, in its order.
ScenarioPrefix(n) ==
  /\ Cardinality(ScenarioStored) = n
  /\ \A i \in 1..n : ht_stored[ScenarioOrder[i]] = <<i>>

\* The global depth of the directory the scenario's keys go to.
ScenarioGlobalDepth(s) ==
  LET directory_page_id == s.hdr[0]
  IN IF directory_page_id \in DOMAIN s.dirs THEN s.dirs[directory_page_id].global_depth ELSE -1

\* C27: inserting 4, 12, 16, 1, 5, 9, 13 in that order succeeds each time,
\* leaves the directory at global depth 1, 2, 2, 2, 3, 3, 3 after the
\* respective inserts, and every key inserted so far is retrievable.
C27_ScenarioDepths ==
  [][\A n \in DOMAIN ScenarioOrder :
       (ScenarioPrefix(n - 1) /\ ScenarioInsert(ScenarioOrder[n]))
         => /\ ht_last'.ret
            /\ ScenarioGlobalDepth(ht') = ScenarioDepths[n]
            /\ \A i \in 1..n : HTGetValueResult(ht', ScenarioOrder[i]) = <<i>>]_vars

\* The depths the directory has in the code: one bucket holds 4 and 12, and
\* 16 differs from them only in the third bit, so its insert splits three times.
ScenarioDepthsInCode == <<0, 0, 3, 3, 3, 3, 3>>

\* C27 (amended): the seven inserts succeed in that order, the directory's
\* global depth after them is 0, 0, 3, 3, 3, 3, 3, and every key inserted so
\* far is retrievable with the value it was inserted with.
C27_ScenarioDepthsInCode ==
  [][\A n \in DOMAIN ScenarioOrder :
       (ScenarioPrefix(n - 1) /\ ScenarioInsert(ScenarioOrder[n]))
         => /\ ht_last'.ret
            /\ ScenarioGlobalDepth(ht') = ScenarioDepthsInCode[n]
            /\ \A i \in 1..n : HTGetValueResult(ht', ScenarioOrder[i]) = <<i>>]_vars

C27_Witness ==
  /\ ScenarioPrefix(Len(ScenarioOrder))
  /\ ht_last.op = "Insert"
  /\ ht_last.key = ScenarioOrder[Len(ScenarioOrder)]
  /\ ScenarioGlobalDepth(ht) = 3


\* ---------------------------------------------------------------------------
\* More properties of the hash index
\* ---------------------------------------------------------------------------
\* The directory pages the header still points to.
ExistingDirectories(s) ==
  {s.hdr[i] : i \in DOMAIN s.hdr} \ {INVALID_PAGE_ID}

\* C28: after every Remove has returned, each directory page that still
\* exists has global depth 0 or cannot shrink (some index in use has a local
\* depth equal to the global depth).
C28_GreedyShrink ==
  ht_last.op = "Remove" =>
    \A directory_page_id \in ExistingDirectories(ht) :
      LET d == ht.dirs[directory_page_id]
      IN d.global_depth = 0 \/ ~CanShrink(d)


\* The bucket page that Remove(key) empties and merges into its sibling, or
\* INVALID_PAGE_ID if Remove(key) does no such thing.
EmptiedBucket(s, key) ==
  LET key_hash == Hash(key)
      directory_page_id == s.hdr[HashToDirectoryIndex(key_hash)]
  IN IF directory_page_id = INVALID_PAGE_ID THEN INVALID_PAGE_ID
     ELSE LET d == s.dirs[directory_page_id]
              bucket_idx == HashToBucketIndex(d, key_hash)
              bucket_page_id == d.bucket_page_ids[bucket_idx]
          IN IF /\ bucket_page_id # INVALID_PAGE_ID
                /\ BucketHasKey(s.bkts[bucket_page_id], key)
                /\ Len(s.bkts[bucket_page_id]) = 1
                /\ GetSplitImageIndex(d, bucket_idx) # bucket_idx
             THEN bucket_page_id ELSE INVALID_PAGE_ID

\* C29: when Remove empties a bucket and merges it into its sibling, the
\* emptied bucket's page has been deleted from the buffer pool (out of the
\* page table, frame on the free list) once Remove has returned.
C29_EmptiedBucketFreed ==
  [][\A key \in Keys :
       (Remove(key) /\ EmptiedBucket(ht, key) # INVALID_PAGE_ID)
         => EmptiedBucket(ht, key) \in ht'.deleted]_vars


\* ---------------------------------------------------------------------------
\* Undo log merging
\* ---------------------------------------------------------------------------
\* The undo logs of a transaction for a rid.
LogsFor(txn_id, rid) ==
  {i \in 1..Len(txn_map[txn_id].undo_logs) : txn_map[txn_id].undo_logs[i].rid = rid}

\* The version in the heap: its ts and the row a reader of it sees.
BaseVersion(rid) ==
  [ts |-> table_heap[rid].meta.ts,
   row |-> IF table_heap[rid].meta.is_deleted THEN <<>> ELSE <<table_heap[rid].tuple>>]

\* The version that the transaction's undo log for the rid gives when it is
\* applied to the base tuple.
RestoredVersion(txn_id, rid) ==
  LET log == txn_map[txn_id].undo_logs[CHOOSE i \in LogsFor(txn_id, rid) : TRUE]
  IN [ts |-> log.ts,
      row |-> ReconstructTuple(table_heap[rid].tuple, table_heap[rid].meta, <<log>>)]

\* C30: a transaction holds at most one undo log for a rid; its first write
\* to a rid leaves a log that restores the version the heap held before that
\* write, and every later step keeps what the log restores, as long as the
\* transaction runs and owns the base tuple.
C30_UndoLogMerging ==
  [][\A txn_id \in DOMAIN txn_map \cap DOMAIN txn_map' : \A rid \in 1..Len(table_heap) :
       /\ Cardinality(LogsFor(txn_id, rid)') <= 1
       /\ (/\ table_heap[rid].meta.ts # txn_id
           /\ table_heap'[rid].meta.ts = txn_id)
            => /\ LogsFor(txn_id, rid)' # {}
               /\ RestoredVersion(txn_id, rid)' = BaseVersion(rid)
       /\ (/\ table_heap[rid].meta.ts = txn_id
           /\ table_heap'[rid].meta.ts = txn_id)
            => /\ (LogsFor(txn_id, rid) = {}) = (LogsFor(txn_id, rid)' = {})
               /\ LogsFor(txn_id, rid) # {}
                    => RestoredVersion(txn_id, rid)' = RestoredVersion(txn_id, rid)]_vars

\* A transaction has updated a row twice and then deleted it: its one undo
\* log restores the row it found.
C30_Witness ==
  /\ mvcc_last.op = "Delete"
  /\ mvcc_last.ret = "ok"
  /\ \E rid \in 1..Len(table_heap) :
       /\ table_heap[rid].meta = [ts |-> mvcc_last.txn, is_deleted |-> TRUE]
       /\ table_heap[rid].tuple[1] = 2
       /\ Cardinality(LogsFor(mvcc_last.txn, rid)) = 1
       /\ RestoredVersion(mvcc_last.txn, rid).row = <<[c \in 1..NumColumns |-> 0]>>


\* ---------------------------------------------------------------------------
\* Executors of a transaction that is no longer RUNNING
\* ---------------------------------------------------------------------------
\* The transactions whose state is TAINTED or ABORTED.
StoppedTxns == {t \in DOMAIN txn_map : txn_map[t].state \in {"TAINTED", "ABORTED"}}

\* C31: every SeqScan, Insert, Update or Delete run for a transaction that is
\* TAINTED or ABORTED fails, and changes neither the table heap, nor the
\* version links, nor the transaction's undo logs or write set.
C31_TaintedCannotWork ==
  [][\A txn_id \in StoppedTxns :
       (\/ SeqScan(txn_id)
        \/ InsertExecutorInit(txn_id)
        \/ UpdateExecutorInit(txn_id)
        \/ DeleteExecutorInit(txn_id))
         => /\ mvcc_last'.ret # "ok"
            /\ table_heap' = table_heap
            /\ version_info' = version_info
            /\ txn_map'[txn_id].undo_logs = txn_map[txn_id].undo_logs
            /\ txn_map'[txn_id].write_set = txn_map[txn_id].write_set]_vars


\* ---------------------------------------------------------------------------
\* Threads inside TransactionManager: which mutex each call takes, and where
\* it calls into running_txns_ (the Watermark).  A call is the sequence of
\* its lock, unlock and Watermark steps; a Watermark method is entered and
\* left in two steps, so that two threads can be inside at once.
\* ---------------------------------------------------------------------------
MaxThreads == 3
Threads == 1..MaxThreads

TMCalls == {"Begin", "Commit", "Abort", "GarbageCollection"}

Program(call) ==
  IF call = "Begin"
  THEN <<[do |-> "lock", mutex |-> "txn_map_mutex", mode |-> "exclusive"],
         [do |-> "access", method |-> "GetLatestCommitTimestamp"],
         [do |-> "access", method |-> "AddTxn"],
         [do |-> "unlock", mutex |-> "txn_map_mutex", mode |-> "exclusive"]>>
  ELSE IF call = "Commit"
  THEN <<[do |-> "lock", mutex |-> "commit_mutex", mode |-> "exclusive"],
         [do |-> "access", method |-> "UpdateCommitTs"],
         [do |-> "access", method |-> "RemoveTxn"],
         [do |-> "unlock", mutex |-> "commit_mutex", mode |-> "exclusive"]>>
  ELSE IF call = "Abort"
  THEN <<[do |-> "lock", mutex |-> "txn_map_mutex", mode |-> "exclusive"],
         [do |-> "access", method |-> "RemoveTxn"],
         [do |-> "unlock", mutex |-> "txn_map_mutex", mode |-> "exclusive"]>>
  ELSE <<[do |-> "access", method |-> "GetWatermark"],
         [do |-> "lock", mutex |-> "txn_map_mutex", mode |-> "shared"],
         [do |-> "unlock", mutex |-> "txn_map_mutex", mode |-> "shared"]>>

NoCall == [call |-> "none", pc |-> 0]

\* The step the thread is at.
Instruction(t) == Program(tm_threads[t].call)[tm_threads[t].pc]

AtInstruction(t, do) ==
  /\ tm_threads[t].call # "none"
  /\ Instruction(t).do = do

\* The thread moves on; after the last step the call returns.
Advance(t) ==
  IF tm_threads[t].pc = Len(Program(tm_threads[t].call))
  THEN [tm_threads EXCEPT ![t] = NoCall]
  ELSE [tm_threads EXCEPT ![t].pc = @ + 1]

HoldsTxnMapMutex(t) == txn_map_mutex.exclusive = t \/ t \in txn_map_mutex.shared

Inside(t) == \E method \in {"GetLatestCommitTimestamp", "AddTxn", "UpdateCommitTs",
                            "RemoveTxn", "GetWatermark"} : <<t, method>> \in watermark_access

TxnLocksStart ==
  /\ HTIdle
  /\ TableIdle
  /\ PoolIdle
  /\ MVCCIdle
  /\ tm_threads = [t \in Threads |-> NoCall]
  /\ txn_map_mutex = [exclusive |-> 0, shared |-> {}]
  /\ watermark_access = {}
  /\ ht_threads = <<>>

TxnLocksUnchanged ==
  UNCHANGED <<next_txn_id, last_commit_ts, txn_map, running_txns, table_heap, version_info,
              executors, mvcc_last, terminated, ht_threads, ht_vars, replacer_vars, bpm_vars,
              guard_vars, heap_vars>>

\* A thread calls into the transaction manager.
TMCall(t, call) ==
  /\ tm_threads[t].call = "none"
  /\ tm_threads' = [tm_threads EXCEPT ![t] = [call |-> call, pc |-> 1]]
  /\ UNCHANGED <<txn_map_mutex, commit_mutex, watermark_access>>
  /\ TxnLocksUnchanged

\* std::lock_guard, std::unique_lock or std::shared_lock gets its mutex.
TMLock(t) ==
  /\ AtInstruction(t, "lock")
  /\ IF Instruction(t).mutex = "commit_mutex"
     THEN /\ commit_mutex = 0
          /\ commit_mutex' = t
          /\ UNCHANGED txn_map_mutex
     ELSE IF Instruction(t).mode = "exclusive"
     THEN /\ txn_map_mutex = [exclusive |-> 0, shared |-> {}]
          /\ txn_map_mutex' = [txn_map_mutex EXCEPT !.exclusive = t]
          /\ UNCHANGED commit_mutex
     ELSE /\ txn_map_mutex.exclusive = 0
          /\ txn_map_mutex' = [txn_map_mutex EXCEPT !.shared = @ \cup {t}]
          /\ UNCHANGED commit_mutex
  /\ tm_threads' = Advance(t)
  /\ UNCHANGED watermark_access
  /\ TxnLocksUnchanged

\* The lock object goes out of scope.
TMUnlock(t) ==
  /\ AtInstruction(t, "unlock")
  /\ IF Instruction(t).mutex = "commit_mutex"
     THEN commit_mutex' = 0 /\ UNCHANGED txn_map_mutex
     ELSE IF Instruction(t).mode = "exclusive"
     THEN txn_map_mutex' = [txn_map_mutex EXCEPT !.exclusive = 0] /\ UNCHANGED commit_mutex
     ELSE txn_map_mutex' = [txn_map_mutex EXCEPT !.shared = @ \ {t}] /\ UNCHANGED commit_mutex
  /\ tm_threads' = Advance(t)
  /\ UNCHANGED watermark_access
  /\ TxnLocksUnchanged

\* The thread enters a method of running_txns_ ...
WatermarkEnter(t) ==
  /\ AtInstruction(t, "access")
  /\ ~Inside(t)
  /\ watermark_access' = watermark_access \cup {<<t, Instruction(t).method>>}
  /\ UNCHANGED <<tm_threads, txn_map_mutex, commit_mutex>>
  /\ TxnLocksUnchanged

\* ... and returns from it.
WatermarkLeave(t) ==
  /\ AtInstruction(t, "access")
  /\ Inside(t)
  /\ watermark_access' = watermark_access \ {<<t, Instruction(t).method>>}
  /\ tm_threads' = Advance(t)
  /\ UNCHANGED <<txn_map_mutex, commit_mutex>>
  /\ TxnLocksUnchanged

TxnLocksNext ==
  \/ \E t \in Threads : \E call \in TMCalls : TMCall(t, call)
  \/ \E t \in Threads : TMLock(t)
  \/ \E t \in Threads : TMUnlock(t)
  \/ \E t \in Threads : WatermarkEnter(t)
  \/ \E t \in Threads : WatermarkLeave(t)

SpecTxnLocks == TxnLocksStart /\ [][TxnLocksNext]_vars

\* C32: a thread inside a method of the watermark holds txn_map_mutex, and
\* no two threads are inside the watermark at once.
C32_WatermarkUnderMutex ==
  /\ \A access \in watermark_access : HoldsTxnMapMutex(access[1])
  /\ Cardinality(watermark_access) <= 1


\* ---------------------------------------------------------------------------
\* Guarded fetches when the pool is exhausted
\* ---------------------------------------------------------------------------
\* C33: when FetchPageRead, FetchPageWrite or NewPageGuarded gets no page
\* from the pool (no free frame and no evictable frame), the caller's guard
\* stays empty, no latch is touched and no null page is dereferenced.
C33_ExhaustionReported ==
  [][\A g \in GuardIds :
       (/\ \/ \E page_id \in PageIds : FetchPageRead(g, page_id)
           \/ \E page_id \in PageIds : FetchPageWrite(g, page_id)
           \/ NewPageGuarded(g)
        /\ ~bpm_last'.ret)
         => /\ ~crashed'
            /\ guards'[g].kind = "none"
            /\ latch' = latch]_vars


\* ---------------------------------------------------------------------------
\* More properties of the replacer
\* ---------------------------------------------------------------------------
\* C34: Remove of a tracked frame that is not evictable does not return
\* normally and leaves the replacer as it was.
C34_RemoveOnlyEvictable ==
  [][\A frame_id \in FrameIds :
       (/\ LRURemove(frame_id)
        /\ frame_id \in DOMAIN node_store
        /\ ~node_store[frame_id].is_evictable)
         => /\ node_store' = node_store
            /\ ~bpm_last'.ret]_vars


\* ---------------------------------------------------------------------------
\* BufferPoolManagerInstance, the older buffer pool.  Its header is not part
\* of the sources: ResetPageMetaDataToDefault is taken to be the one of
\* BufferPoolManager, ClearPage to reset the frame, and the page table to be
\* a map.
\* ---------------------------------------------------------------------------
ClearPage(page) == EmptyPage

\* BufferPoolManagerInstance::GetFreeFrameId: [ok], or [ok, frame_id,
\* free_list, ns, page_table, disk].
InstanceGetFreeFrameId ==
  IF free_list # <<>>
  THEN [ok |-> TRUE, frame_id |-> Head(free_list), free_list |-> Tail(free_list),
        ns |-> node_store, disk |-> disk, page_table |-> page_table]
  ELSE LET ev == ReplacerEvict(node_store)
       IN IF ~ev.ret THEN [ok |-> FALSE]
          ELSE LET replaceable_page == pages[ev.frame_id]
               IN [ok |-> TRUE, frame_id |-> ev.frame_id, free_list |-> free_list,
                   ns |-> ReplacerRemove(ev.ns, ev.frame_id),
                   disk |-> IF replaceable_page.is_dirty
                            THEN DiskWrite(disk, replaceable_page.page_id, replaceable_page.data)
                            ELSE disk,
                   page_table |-> [p \in DOMAIN page_table \ {replaceable_page.page_id} |->
                                     page_table[p]]]

InstanceUnchanged == UNCHANGED <<pool_size, replacer_k, guard_vars, non_pool_vars>>

InstanceFails(op) ==
  /\ bpm_last' = [op |-> op, ret |-> FALSE]
  /\ UNCHANGED <<pages, page_table, free_list, next_page_id, disk, node_store, current_timestamp>>

NewPgImp ==
  /\ LET free == InstanceGetFreeFrameId
     IN IF ~free.ok THEN InstanceFails("NewPgImp")
        ELSE /\ next_page_id <= MaxPageId
             /\ current_timestamp < MaxTimestamp
             /\ pages' = [pages EXCEPT ![free.frame_id] =
                            ResetPageMetaDataToDefault(@, next_page_id)]
             /\ next_page_id' = next_page_id + 1
             /\ page_table' = (next_page_id :> free.frame_id) @@ free.page_table
             /\ free_list' = free.free_list
             /\ disk' = free.disk
             /\ node_store' = SetEvictable(RecordAccess(free.ns, free.frame_id, GetCurrentTimestamp),
                                           free.frame_id, FALSE)
             /\ current_timestamp' = GetCurrentTimestamp
             /\ bpm_last' = [op |-> "NewPgImp", ret |-> TRUE]
  /\ InstanceUnchanged

FetchPgImp(page_id) ==
  /\ Allocated(page_id)
  /\ PinsLeft(page_id)
  /\ IF page_id \in DOMAIN page_table
     THEN /\ pages' = [pages EXCEPT ![page_table[page_id]].pin_count = @ + 1]
          /\ bpm_last' = [op |-> "FetchPgImp", ret |-> TRUE]
          /\ UNCHANGED <<page_table, free_list, next_page_id, disk, node_store, current_timestamp>>
     ELSE LET free == InstanceGetFreeFrameId
          IN IF ~free.ok THEN InstanceFails("FetchPgImp")
             ELSE /\ current_timestamp < MaxTimestamp
                  /\ pages' = [pages EXCEPT ![free.frame_id] =
                                 [ResetPageMetaDataToDefault(@, page_id) EXCEPT
                                    !.data = DiskRead(free.disk, page_id)]]
                  /\ page_table' = (page_id :> free.frame_id) @@ free.page_table
                  /\ free_list' = free.free_list
                  /\ disk' = free.disk
                  /\ node_store' = SetEvictable(
                                     RecordAccess(free.ns, free.frame_id, GetCurrentTimestamp),
                                     free.frame_id, FALSE)
                  /\ current_timestamp' = GetCurrentTimestamp
                  /\ bpm_last' = [op |-> "FetchPgImp", ret |-> TRUE]
                  /\ UNCHANGED next_page_id
  /\ InstanceUnchanged

UnpinPgImp(page_id, is_dirty) ==
  /\ Allocated(page_id)
  /\ IF page_id \notin DOMAIN page_table \/ pages[page_table[page_id]].pin_count = 0
     THEN InstanceFails("UnpinPgImp")
     ELSE LET frame_id == page_table[page_id]
          IN /\ pages' = [pages EXCEPT ![frame_id] =
                            [@ EXCEPT !.is_dirty = is_dirty, !.pin_count = @ - 1]]
             /\ node_store' = IF pages[frame_id].pin_count - 1 = 0
                              THEN SetEvictable(node_store, frame_id, TRUE) ELSE node_store
             /\ bpm_last' = [op |-> "UnpinPgImp", ret |-> TRUE]
             /\ UNCHANGED <<page_table, free_list, next_page_id, disk, current_timestamp>>
  /\ InstanceUnchanged

DeletePgImp(page_id) ==
  /\ Allocated(page_id)
  /\ IF page_id \notin DOMAIN page_table
     THEN /\ bpm_last' = [op |-> "DeletePgImp", ret |-> TRUE]
          /\ UNCHANGED <<pages, page_table, free_list, next_page_id, disk, node_store,
                         current_timestamp>>
     ELSE IF pages[page_table[page_id]].pin_count = 0
     THEN InstanceFails("DeletePgImp")
     ELSE LET frame_id == page_table[page_id]
          IN /\ pages' = [pages EXCEPT ![frame_id] = ClearPage(@)]
             /\ page_table' = [p \in DOMAIN page_table \ {page_id} |-> page_table[p]]
             /\ node_store' = ReplacerRemove(node_store, frame_id)
             /\ free_list' = Append(free_list, frame_id)
             /\ bpm_last' = [op |-> "DeletePgImp", ret |-> TRUE]
             /\ UNCHANGED <<next_page_id, disk, current_timestamp>>
  /\ InstanceUnchanged

InstanceNext ==
  \/ NewPgImp
  \/ \E page_id \in PageIds : FetchPgImp(page_id)
  \/ \E page_id \in PageIds, is_dirty \in BOOLEAN : UnpinPgImp(page_id, is_dirty)
  \/ \E page_id \in PageIds : DeletePgImp(page_id)

SpecInstance == BPMStart /\ [][InstanceNext]_vars

\* C35: a page that is resident with pin_count > 0 stays in its frame over
\* every call: it is neither evicted nor deleted.
C35_PinnedStaysResident ==
  [][\A page_id \in DOMAIN page_table :
       pages[page_table[page_id]].pin_count > 0
         => /\ page_id \in DOMAIN page_table'
            /\ page_table'[page_id] = page_table[page_id]]_vars

\* The eviction part of C35 alone: NewPgImp and FetchPgImp never take the
\* frame of a pinned page.
C35_PinnedNotEvicted ==
  [][\A page_id \in DOMAIN page_table :
       (/\ pages[page_table[page_id]].pin_count > 0
        /\ bpm_last'.op \in {"NewPgImp", "FetchPgImp"})
         => /\ page_id \in DOMAIN page_table'
            /\ page_table'[page_id] = page_table[page_id]]_vars


\* ---------------------------------------------------------------------------
\* Frame of a failed insert
\* ---------------------------------------------------------------------------
\* C36: an Insert that returns false leaves every directory (global depth,
\* local depths, bucket page ids) and every bucket as it was.
C36_FailedInsertNoEffect ==
  [][\A key \in Keys :
       (Insert(key, ValueOf(key)) /\ ~ht_last'.ret)
         => /\ ht'.dirs = ht.dirs
            /\ ht'.bkts = ht.bkts]_vars


\* ---------------------------------------------------------------------------
\* Commit step by step: Commit takes its timestamp, stamps the tuples of its
\* write set one by one, and then publishes the timestamp; Begin and the
\* steps of sequential scans of other transactions come in between.  The
\* table has two rows, inserted by one statement.
\* ---------------------------------------------------------------------------
MaxCommitRids == 2

\* INSERT INTO t VALUES (0, ...), (0, ...): the Values child gives two rows.
InsertRows(txn_id) ==
  /\ CanExecute(txn_id)
  /\ table_heap = <<>>
  /\ table_heap' = [rid \in 1..MaxCommitRids |->
                      [meta |-> [ts |-> txn_id, is_deleted |-> FALSE],
                       tuple |-> [c \in 1..NumColumns |-> 0]]]
  /\ txn_map' = [txn_map EXCEPT ![txn_id].write_set = @ \cup (1..MaxCommitRids)]
  /\ mvcc_last' = Last("Insert", txn_id, "ok", <<>>)
  /\ UNCHANGED <<next_txn_id, last_commit_ts, running_txns, version_info, executors,
                 commit_mutex, terminated, non_mvcc_vars>>

\* The tuples of the write set that the stamping loop has not reached yet.
Unstamped(txn_id) ==
  {rid \in txn_map[txn_id].write_set : table_heap[rid].meta.ts # last_commit_ts}

\* A faulty variant of CommitTakeTs: the commit timestamp is handed to the
\* watermark before the tuples are stamped.
CommitTakeTsPublishes(txn_id) ==
  /\ CanCommit(txn_id)
  /\ txn_map[txn_id].state = "RUNNING"
  /\ last_commit_ts < MaxCommitTs
  /\ last_commit_ts' = last_commit_ts + 1
  /\ commit_mutex' = txn_id
  /\ running_txns' = UpdateCommitTs(running_txns, last_commit_ts + 1)
  /\ mvcc_last' = Last("Commit", txn_id, "ts", <<>>)
  /\ UNCHANGED <<txn_map, table_heap>>
  /\ UNCHANGED <<next_txn_id, version_info, executors, terminated, non_mvcc_vars>>

\* Commit up to "const timestamp_t commit_ts = ++last_commit_ts_".
CommitTakeTs(txn_id) ==
  /\ CanCommit(txn_id)
  /\ txn_map[txn_id].state = "RUNNING"
  /\ last_commit_ts < MaxCommitTs
  /\ last_commit_ts' = last_commit_ts + 1
  /\ commit_mutex' = txn_id
  /\ mvcc_last' = Last("Commit", txn_id, "ts", <<>>)
  /\ UNCHANGED <<txn_map, running_txns, table_heap>>
  /\ UNCHANGED <<next_txn_id, version_info, executors, terminated, non_mvcc_vars>>

\* One round of the stamping loop; the write set is unordered.
CommitStampOne(txn_id, rid) ==
  /\ ~terminated
  /\ commit_mutex = txn_id
  /\ rid \in Unstamped(txn_id)
  /\ table_heap' = [table_heap EXCEPT ![rid].meta.ts = last_commit_ts]
  /\ mvcc_last' = Last("Commit", txn_id, "stamp", <<rid>>)
  /\ UNCHANGED <<next_txn_id, last_commit_ts, txn_map, running_txns, version_info, executors,
                 commit_mutex, terminated, non_mvcc_vars>>

\* The rest of Commit, after the loop.
CommitPublish(txn_id) ==
  /\ commit_mutex = txn_id
  /\ Unstamped(txn_id) = {}
  /\ CommitFinish(txn_id)

\* SeqScanExecutor::Init: the iterator is made, with the end of the heap as
\* its bound ...
ScanInit(txn_id) ==
  /\ CanExecute(txn_id)
  /\ executors' = [executors EXCEPT ![txn_id] =
                     [op |-> "SeqScan", tuples_buffer |-> <<>>, rid |-> 1,
                      stop |-> Len(table_heap)]]
  /\ mvcc_last' = Last("SeqScan", txn_id, "init", <<>>)
  /\ UNCHANGED <<next_txn_id, last_commit_ts, txn_map, running_txns, table_heap, version_info,
                 commit_mutex, terminated, non_mvcc_vars>>

\* ... one tuple is read and reconstructed per step ...
ScanStep(txn_id) ==
  /\ ~terminated
  /\ executors[txn_id].op = "SeqScan"
  /\ executors[txn_id].rid <= executors[txn_id].stop
  /\ LET rid == executors[txn_id].rid
         r == ReconstructTupleFromTableHeapAndUndoLogs(txn_id, rid)
     IN IF r.kind = "throw"
        THEN /\ executors' = [executors EXCEPT ![txn_id] = NoExecutor]
             /\ mvcc_last' = Last("SeqScan", txn_id, "throw", <<>>)
        ELSE /\ executors' = [executors EXCEPT
                                ![txn_id].rid = @ + 1,
                                ![txn_id].tuples_buffer =
                                  IF r.tuple = <<>> THEN @
                                  ELSE Append(@, [rid |-> rid, tuple |-> r.tuple[1]])]
             /\ mvcc_last' = Last("SeqScan", txn_id, "next", <<rid>>)
  /\ UNCHANGED <<next_txn_id, last_commit_ts, txn_map, running_txns, table_heap, version_info,
                 commit_mutex, terminated, non_mvcc_vars>>

\* ... and Next returns false at the bound.
ScanEnd(txn_id) ==
  /\ ~terminated
  /\ executors[txn_id].op = "SeqScan"
  /\ executors[txn_id].rid > executors[txn_id].stop
  /\ executors' = [executors EXCEPT ![txn_id] = NoExecutor]
  /\ mvcc_last' = Last("SeqScan", txn_id, "ok", executors[txn_id].tuples_buffer)
  /\ UNCHANGED <<next_txn_id, last_commit_ts, txn_map, running_txns, table_heap, version_info,
                 commit_mutex, terminated, non_mvcc_vars>>

CommitStepsNext ==
  \/ MVCCBegin
  \/ \E txn_id \in TxnIds : InsertRows(txn_id)
  \/ \E txn_id \in TxnIds : UpdateExecutorInit(txn_id)
  \/ \E txn_id \in TxnIds : CommitTakeTs(txn_id)
  \/ \E txn_id \in TxnIds, rid \in 1..MaxCommitRids : CommitStampOne(txn_id, rid)
  \/ \E txn_id \in TxnIds : CommitPublish(txn_id)
  \/ \E txn_id \in TxnIds : ScanInit(txn_id)
  \/ \E txn_id \in TxnIds : ScanStep(txn_id)
  \/ \E txn_id \in TxnIds : ScanEnd(txn_id)

SpecCommitSteps == MVCCStart /\ [][CommitStepsNext]_vars

\* A Commit is between taking its timestamp and the end of its stamping loop.
Stamping(txn_id) ==
  /\ commit_mutex = txn_id
  /\ Unstamped(txn_id) # {}

\* C37: while a Commit still has tuples to stamp, no transaction has a
\* read_ts at or above its commit timestamp; and a scan that ran step by
\* step beside commits returns the rows of one snapshot: what a scan without
\* interruption returns, all of a transaction's writes or none of them.
C37_AtomicCommitVisibility ==
  /\ \A txn_id \in DOMAIN txn_map :
       Stamping(txn_id) => \A t \in DOMAIN txn_map : txn_map[t].read_ts < last_commit_ts
  /\ (mvcc_last.op = "SeqScan" /\ mvcc_last.ret = "ok")
       => /\ mvcc_last.out = ScanRows(mvcc_last.txn)
          /\ \A i, j \in 1..Len(mvcc_last.out) : mvcc_last.out[i].tuple = mvcc_last.out[j].tuple

\* A scan has returned the old version of both rows while the Commit of
\* their update has stamped one row and not yet the other.
C37_Witness ==
  /\ mvcc_last.op = "SeqScan"
  /\ mvcc_last.ret = "ok"
  /\ Len(mvcc_last.out) = MaxCommitRids
  /\ \E txn_id \in DOMAIN txn_map :
       /\ Stamping(txn_id)
       /\ Cardinality(Unstamped(txn_id)) = 1
       /\ txn_map[txn_id].undo_logs # <<>>


\* ---------------------------------------------------------------------------
\* Tuples left behind by an aborted transaction
\* ---------------------------------------------------------------------------
\* The rids whose base tuple carries the temporary timestamp of a
\* transaction that has aborted (and may have been collected since).
AbortedRids ==
  {rid \in DOMAIN table_heap :
     LET ts == table_heap[rid].meta.ts
     IN /\ ts >= TXN_START_ID
        /\ ts \in DOMAIN txn_map => txn_map[ts].state = "ABORTED"}

\* The rids that the child scan of an Update or Delete of txn_id hands on.
ScannedRids(txn_id) ==
  IF ScanThrows(txn_id) THEN {}
  ELSE {ScanRows(txn_id)[i].rid : i \in 1..Len(ScanRows(txn_id))}

\* C38: a rid written by an aborted transaction is frozen: an Update or
\* Delete that reaches it, by any other transaction, raises a write-write
\* conflict and taints that transaction, and the base tuple and meta of the
\* rid never change.
C38_AbortedRidFrozen ==
  [][\A rid \in AbortedRids :
       /\ table_heap'[rid] = table_heap[rid]
       /\ \A txn_id \in ActiveTxns :
            ((UpdateExecutorInit(txn_id) \/ DeleteExecutorInit(txn_id))
               /\ rid \in ScannedRids(txn_id))
              => /\ mvcc_last'.ret = "WriteConflict"
                 /\ txn_map'[txn_id].state = "TAINTED"
                 /\ ~terminated']_vars


\* The same for the transactions that are still RUNNING when they try.
C38_AbortedRidFrozenForRunning ==
  [][\A rid \in AbortedRids :
       /\ table_heap'[rid] = table_heap[rid]
       /\ \A txn_id \in ActiveTxns :
            ((UpdateExecutorInit(txn_id) \/ DeleteExecutorInit(txn_id))
               /\ txn_map[txn_id].state = "RUNNING"
               /\ rid \in ScannedRids(txn_id))
              => /\ mvcc_last'.ret = "WriteConflict"
                 /\ txn_map'[txn_id].state = "TAINTED"
                 /\ ~terminated']_vars


\* ---------------------------------------------------------------------------
\* Frames of the buffer pool: free or holding a page
\* ---------------------------------------------------------------------------
\* The buffer pool after construction, with one frame or more.
FramesStart ==
  /\ HTIdle
  /\ TableIdle
  /\ ThreadsIdle
  /\ GuardIdle
  /\ MVCCIdle
  /\ pool_size \in 1..MaxFrames
  /\ replacer_k \in 1..MaxK
  /\ node_store = <<>>
  /\ current_timestamp = 0
  /\ pages = [f \in Frames |-> EmptyPage]
  /\ page_table = <<>>
  /\ free_list = [i \in 1..pool_size |-> i - 1]
  /\ next_page_id = 0
  /\ disk = <<>>
  /\ bpm_last = [op |-> "none", ret |-> FALSE]

SpecFrames == FramesStart /\ [][BPMNext]_vars

FreeFrames == {free_list[i] : i \in 1..Len(free_list)}

PagesIn(f) == {p \in DOMAIN page_table : page_table[p] = f}

\* C39: every frame is either on the free list or the frame of exactly one
\* page id of the page table, never both and never neither; no two page ids
\* have the same frame; and the size of the page table plus the length of
\* the free list is the pool size.
C39_FramePartition ==
  /\ \A f \in Frames :
       \/ f \in FreeFrames /\ PagesIn(f) = {}
       \/ f \notin FreeFrames /\ Cardinality(PagesIn(f)) = 1
  /\ \A p \in DOMAIN page_table : page_table[p] \in Frames
  /\ \A p, q \in DOMAIN page_table : page_table[p] = page_table[q] => p = q
  /\ Cardinality(DOMAIN page_table) + Len(free_list) = pool_size

\* A page was deleted from a pool in which another page stays: one frame is
\* on the free list again and one holds a page.
C39_Witness ==
  /\ bpm_last.op = "DeletePage"
  /\ bpm_last.ret
  /\ free_list # <<>>
  /\ page_table # <<>>

\* A page was evicted: the pool has no free frame and the page table holds
\* only the page that came in.
AfterEviction ==
  /\ free_list = <<>>
  /\ next_page_id > pool_size
  /\ bpm_last.op = "NewPage"
  /\ bpm_last.ret


\* ---------------------------------------------------------------------------
\* Index calls on several threads.  A call fetches the header page with its
\* latch (FetchPageWrite in Insert and Remove, FetchPageRead in GetValue),
\* reads and writes the pages of the index, and releases the latch when its
\* header_guard goes out of scope at the return.  What a call read is kept
\* from its first read; what it writes is written from that at the return.
\* ---------------------------------------------------------------------------
\* The first page NewPageGuarded gives, in the constructor.
header_page_id == 0

IndexCalls == {"Insert", "Remove", "GetValue"}

\* The keys the threads use.
MaxIndexKey == 1

IndexKeys == 0..MaxIndexKey

NoIndexCall == [op |-> "none", key |-> 0, pc |-> "idle", seen |-> <<>>]

IndexThreadsStart ==
  /\ header_max_depth = 0
  /\ directory_max_depth = 1
  /\ bucket_max_size = 1
  /\ hash_fn = IdentityHash
  /\ ht = HTInit(header_max_depth)
  /\ ht_last = [op |-> "none", key |-> 0, result |-> <<>>, ret |-> FALSE]
  /\ ht_stored = [k \in Keys |-> <<>>]
  /\ MVCCIdle
  /\ TableIdle
  /\ replacer_k = 0
  /\ node_store = <<>>
  /\ current_timestamp = 0
  /\ pool_size = 0
  /\ pages = <<>>
  /\ page_table = <<>>
  /\ free_list = <<>>
  /\ next_page_id = 0
  /\ disk = <<>>
  /\ bpm_last = <<>>
  /\ guards = <<>>
  /\ crashed = FALSE
  /\ latch = [p \in {header_page_id} |-> FreeLatch]
  /\ tm_threads = <<>>
  /\ txn_map_mutex = [exclusive |-> 0, shared |-> {}]
  /\ watermark_access = {}
  /\ ht_threads = [t \in Threads |-> NoIndexCall]

IndexThreadsUnchanged ==
  UNCHANGED <<header_max_depth, directory_max_depth, bucket_max_size, hash_fn, replacer_vars,
              bpm_vars, guards, crashed, mvcc_vars, heap_vars, tm_threads, txn_map_mutex,
              watermark_access>>

\* The kind of guard a call holds on the header page.
HeaderGuardKind(op) == IF op = "GetValue" THEN "read" ELSE "write"

\* Thread t is between the grant of the header latch and its return.
HoldsHeader(t) == ht_threads[t].pc = "body"

\* Thread t calls op(key) and blocks in RLatch / WLatch of the header page.
HTCall(t, op, key) ==
  /\ ht_threads[t].op = "none"
  /\ ht_threads' = [ht_threads EXCEPT ![t] = [op |-> op, key |-> key, pc |-> "fetch",
                                               seen |-> <<>>]]
  /\ UNCHANGED <<ht, ht_last, ht_stored, latch>>
  /\ IndexThreadsUnchanged

\* A faulty variant of HTLatchHeader: every call takes the header latch
\* shared.
HTLatchHeaderShared(t) ==
  /\ ht_threads[t].pc = "fetch"
  /\ CanRLatch(header_page_id)
  /\ latch' = [latch EXCEPT ![header_page_id].readers = @ + 1]
  /\ ht_threads' = [ht_threads EXCEPT ![t].pc = "body", ![t].seen = ht]
  /\ UNCHANGED <<ht, ht_last, ht_stored>>
  /\ IndexThreadsUnchanged

\* The latch of the header page is granted to thread t, and the call reads.
HTLatchHeader(t) ==
  /\ ht_threads[t].pc = "fetch"
  /\ IF HeaderGuardKind(ht_threads[t].op) = "read"
     THEN /\ CanRLatch(header_page_id)
          /\ latch' = [latch EXCEPT ![header_page_id].readers = @ + 1]
     ELSE /\ CanWLatch(header_page_id)
          /\ latch' = [latch EXCEPT ![header_page_id].writer = TRUE]
  /\ ht_threads' = [ht_threads EXCEPT ![t].pc = "body", ![t].seen = ht]
  /\ UNCHANGED <<ht, ht_last, ht_stored>>
  /\ IndexThreadsUnchanged

\* What the call of thread t returns and leaves behind, from index state s.
IndexCallResult(t, s) ==
  LET key == ht_threads[t].key
  IN IF ht_threads[t].op = "Insert" THEN HTInsertResult(s, key, ValueOf(key))
     ELSE IF ht_threads[t].op = "Remove" THEN HTRemoveResult(s, key)
     ELSE [s |-> s, ret |-> HTGetValueResult(s, key) # <<>>]

\* The call of thread t returns: its writes are in place, its guards are
\* destroyed, the header guard last.
HTReturn(t) ==
  /\ ht_threads[t].pc = "body"
  /\ HTShiftDefined(ht_threads[t].seen)
  /\ LET op == ht_threads[t].op
         key == ht_threads[t].key
         r == IndexCallResult(t, ht_threads[t].seen)
     IN /\ HTPagesLeft(r.s)
        /\ ht' = IF op = "GetValue" THEN ht ELSE r.s
        /\ ht_last' = [op |-> op, key |-> key,
                       result |-> IF op = "GetValue"
                                  THEN HTGetValueResult(ht_threads[t].seen, key) ELSE <<>>,
                       ret |-> r.ret]
        /\ ht_stored' = IF op = "Insert" /\ r.ret THEN [ht_stored EXCEPT ![key] = <<ValueOf(key)>>]
                        ELSE IF op = "Remove" THEN [ht_stored EXCEPT ![key] = <<>>]
                        ELSE ht_stored
        /\ latch' = Unlatched(HeaderGuardKind(op), header_page_id)
  /\ ht_threads' = [ht_threads EXCEPT ![t] = NoIndexCall]
  /\ IndexThreadsUnchanged

IndexThreadsNext ==
  \/ \E t \in Threads, op \in IndexCalls, key \in IndexKeys : HTCall(t, op, key)
  \/ \E t \in Threads : HTLatchHeader(t)
  \/ \E t \in Threads : HTReturn(t)

SpecIndexThreads == IndexThreadsStart /\ [][IndexThreadsNext]_vars

\* No Insert or Remove holds the header page together with another call.
NoOverlap ==
  \A t, u \in Threads :
    (t # u /\ HoldsHeader(t) /\ HoldsHeader(u))
      => ht_threads[t].op = "GetValue" /\ ht_threads[u].op = "GetValue"

\* C40: the header latch serializes the index calls: an Insert or Remove
\* holds the header page alone, a GetValue only together with other
\* GetValues; the index does not change under a call that holds the header
\* page; and every call returns, and leaves the index, as if it ran alone at
\* its return, so the results are those of the calls in the order of their
\* returns.
C40_HeaderLatchSerializes ==
  [][/\ NoOverlap'
     /\ \A t \in Threads : HoldsHeader(t)' => ht_threads'[t].seen = ht'
     /\ \A t \in Threads :
          HTReturn(t) => /\ ht_last'.ret = IndexCallResult(t, ht).ret
                         /\ ht_threads[t].op # "GetValue" => ht' = IndexCallResult(t, ht).s]_vars

\* An Insert holds the header page of an index with keys in it while a
\* Remove and a GetValue wait for the latch.
C40_Witness ==
  /\ ht.bkts # <<>>
  /\ \E t, u, v \in Threads :
       /\ HoldsHeader(t) /\ ht_threads[t].op = "Insert"
       /\ ht_threads[u].pc = "fetch" /\ ht_threads[u].op = "Remove"
       /\ ht_threads[v].pc = "fetch" /\ ht_threads[v].op = "GetValue"

====
